---- MODULE Spec2Model ----
(***************************************************************************)
(* blink2mqtt: the device-shadow store (self.devices / self.states), its   *)
(* deep-merge upsert, and the handlers that poll the vendor API, publish   *)
(* to the broker and accept commands.                                      *)
(*                                                                         *)
(* Python values are modelled as nodes of one record shape, so that any    *)
(* two of them can be compared:                                            *)
(*   t = "s"  a scalar (str, int, bool, None), written as a string in s    *)
(*   t = "l"  a list, its elements in l                                    *)
(*   t = "m"  a dict, a function from its string keys to nodes in m        *)
(*   t = "t"  a tuple                                                      *)
(* The repository's files come from neighbouring revisions: a mode's kind  *)
(* is called component_type in blink.py/publish.py and platform in         *)
(* refresh.py/helpers.py, and some callees are coroutines in one file and  *)
(* plain functions in another.  The model follows each function's body     *)
(* and treats both names of the field as the same field.                   *)
(***************************************************************************)
EXTENDS Integers, Sequences, FiniteSets, TLC

VARIABLES
    devices,    \* self.devices: device id -> component tree   (base.py:54)
    states,     \* self.states:  device id -> state tree       (base.py:55)
    call,       \* the last upsert call made directly on the store, and its outcome
    prevCall,   \* the upsert call before that
    ncalls,     \* number of direct upsert calls made so far
    blink,              \* self.blink: the vendor account as blinkpy shows it
    blink_cameras,      \* self.blink_cameras: serial -> last listed camera   (base.py:52)
    blink_sync_modules, \* self.blink_sync_modules: serial -> last listed hub (base.py:53)
    discovery_complete, \* self.discovery_complete                           (base.py:50)
    running,            \* self.running
    cmd,        \* the handle_device_command coroutine: idle, or awaiting the setter
    pubs,       \* the broker publishes made by the last step, in order
    last,       \* the handler that made the last step
    err,        \* the exception the last step raised
    announced,  \* devices whose discovery had been published before the last step
    listed,     \* the serials the vendor listed at the latest device-list poll
    nchanges,   \* number of changes made on the vendor side so far
    ncommands,  \* number of device commands received so far
    cycle,      \* one run of refresh_snapshot_all_devices, task by task   (refresh.py:36)
    mq,         \* the inbound broker messages handled so far              (mqtt.py:112)
    loops,      \* the loop tasks of main_loop and main_loop itself        (loops.py:104)
    intervals,  \* self.device_interval, self.device_list_interval,
                \* self.snapshot_update_interval                           (base.py:68)
    svc         \* the service object's life: the context manager, main_loop's
                \* start, and the broker client self.mqttc                  (base.py:72)

storeVars == <<devices, states>>
callVars == <<call, prevCall, ncalls>>
sysVars == <<blink, blink_cameras, blink_sync_modules, discovery_complete, running,
             cmd, pubs, last, err, announced, listed, nchanges, ncommands>>
extVars == <<cycle, mq, loops, intervals, svc>>

-----------------------------------------------------------------------------
(* Python values *)

Scal(v) == [t |-> "s", s |-> v, l |-> <<>>, m |-> <<>>]
Lst(q) == [t |-> "l", s |-> "", l |-> q, m |-> <<>>]
Map(f) == [t |-> "m", s |-> "", l |-> <<>>, m |-> f]
Tup == [t |-> "t", s |-> "", l |-> <<>>, m |-> <<>>]
EmptyMap == Map(<<>>)
None == Scal("None")

\* a dict key that is itself a tuple
TupleKey == "(k1, k2)"

RECURSIVE HasTuple(_)
\* _assert_no_tuples raises TypeError: a tuple as a value or as a dict key, at any depth
HasTuple(n) ==
    CASE n.t = "t" -> TRUE
      [] n.t = "m" -> \E k \in DOMAIN n.m : k = TupleKey \/ HasTuple(n.m[k])
      [] n.t = "l" -> \E i \in 1..Len(n.l) : HasTuple(n.l[i])
      [] OTHER -> FALSE

-----------------------------------------------------------------------------
(* deepmerge.Merger([(dict, "merge"), (list, "append_unique"), (set, "union")],
                    ["override"], ["override"]) *)

InSeq(x, q) == \E i \in 1..Len(q) : q[i] = x

\* mutant: plain "append" instead of "append_unique"
MutListAppend(base, nxt) == Lst(base.l \o nxt.l)

\* list strategy append_unique: base + [n for n in nxt if n not in base]
ListAppendUnique(base, nxt) ==
    Lst(base.l \o SelectSeq(nxt.l, LAMBDA n : ~InSeq(n, base.l)))

\* mutant: the new value replaces the old one whatever the types
MutOverrideDict(base, nxt) == nxt

\* mutant: the old value is kept on a type conflict
MutKeepOld(base, nxt) == base

\* type-conflict and fallback strategy "override": new wins
Override(base, nxt) == nxt

RECURSIVE Merge(_, _)

\* mutant: only the keys of the new mapping survive the merge
MutNewKeysOnly(base, nxt) ==
    Map([k \in DOMAIN nxt.m |->
            IF k \notin DOMAIN base.m THEN nxt.m[k] ELSE Merge(base.m[k], nxt.m[k])])

\* dict strategy "merge": for k, v in nxt.items(): base[k] = v if k not in base
\* else merge(base[k], v); keys only in base stay
DictMerge(base, nxt) ==
    Map([k \in (DOMAIN base.m) \cup (DOMAIN nxt.m) |->
            IF k \notin DOMAIN nxt.m THEN base.m[k]
            ELSE IF k \notin DOMAIN base.m THEN nxt.m[k]
            ELSE Merge(base.m[k], nxt.m[k])])

Merge(base, nxt) ==
    IF base.t = "m" /\ nxt.t = "m" THEN DictMerge(base, nxt)
    ELSE IF base.t = "l" /\ nxt.t = "l" THEN ListAppendUnique(base, nxt)
    ELSE Override(base, nxt)

-----------------------------------------------------------------------------
(* upsert_device / upsert_state.  kw is the keyword arguments in call order: a
   sequence of [sec |-> section name, v |-> data]. *)

Has(store, d) == d \in DOMAIN store
TreeOf(store, d) == IF Has(store, d) THEN store[d] ELSE EmptyMap
Put(store, d, tree) == [x \in (DOMAIN store) \cup {d} |-> IF x = d THEN tree ELSE store[x]]
OneSection(sec, data) == Map([k \in {sec} |-> data])

RECURSIVE UpsertLoop(_, _, _, _)
\* the for loop over kwargs.items(), from item i on: the store it leaves and the
\* error it raises.  MERGER.merge changes its first argument in place, so a stored
\* tree is already merged when the post-merge check raises.
UpsertLoop(store, d, kw, i) ==
    IF i > Len(kw) THEN [store |-> store, err |-> "none"]
    ELSE IF HasTuple(kw[i].v) THEN [store |-> store, err |-> "TypeError"]
    ELSE LET merged == Merge(TreeOf(store, d), OneSection(kw[i].sec, kw[i].v))
         IN  IF HasTuple(merged)
             THEN [store |-> IF Has(store, d) THEN Put(store, d, merged) ELSE store,
                   err |-> "TypeError"]
             ELSE UpsertLoop(Put(store, d, merged), d, kw, i + 1)

\* prev = store.get(device_id, {}): for a known device prev is the stored dict
\* itself, which the merges then change in place, so at the comparison it shows
\* the merged tree; for an unknown device it is a fresh empty dict
PrevAtCompare(store, after, d) == IF Has(store, d) THEN after[d] ELSE EmptyMap

\* the whole call: the store afterwards, the value returned, the error raised
Upsert(store, d, kw) ==
    LET r == UpsertLoop(store, d, kw, 1)
    IN  [store |-> r.store,
         err |-> r.err,
         changed |-> r.err = "none" /\ PrevAtCompare(store, r.store, d) # TreeOf(r.store, d)]

Item(sec, v) == [sec |-> sec, v |-> v]

-----------------------------------------------------------------------------
(* The vendor account (self.blink) and the two caches of its listings *)

service_slug == "blink2mqtt"
SyncModules == {"S1"}
Cameras == {"C1", "U1"}
Serials == SyncModules \cup Cameras

\* attributes["type"] of each camera of the account; a hub is a "sync_module"
device_type(d) ==
    CASE d \in SyncModules -> "sync_module"
      [] d = "C1" -> "sedona"
      [] d = "C2" -> "catalina"
      [] OTHER -> "owl"

PyBool(b) == Scal(IF b THEN "True" ELSE "False")
OnOff(b) == Scal(IF b THEN "ON" ELSE "OFF")
SetKey(f, key, val) == [k \in (DOMAIN f) \cup {key} |-> IF k = key THEN val ELSE f[k]]

\* the entry get_cameras writes for a camera the account lists
CameraEntry(bl, d) ==
    [serial_number |-> d, device_name |-> d, device_type |-> device_type(d),
     motion_detection |-> bl.armed[d],
     supports_get_config |-> device_type(d) \in {"owl", "catalina"}]

\* the entry get_sync_modules writes for a hub the account lists
SyncEntry(bl, d) ==
    [serial_number |-> d, device_name |-> d, device_type |-> "sync_module",
     arm_mode |-> bl.armed[d], local_storage |-> TRUE]

\* get_cameras: entries of listed cameras are rewritten, entries of cameras no
\* longer listed stay as they were; the whole cache is returned
get_cameras(bl, cache) ==
    [d \in (DOMAIN cache) \cup (bl.online \cap Cameras) |->
        IF d \in bl.online THEN CameraEntry(bl, d) ELSE cache[d]]

get_sync_modules(bl, cache) ==
    [d \in (DOMAIN cache) \cup (bl.online \cap SyncModules) |->
        IF d \in bl.online THEN SyncEntry(bl, d) ELSE cache[d]]

-----------------------------------------------------------------------------
(* Topics.  The helpers that build them are not part of the source tree; the
   shapes are those of the interface description: state P/<id>/<section>[/<entity>],
   availability P/<id>/availability, command P/P_<id>/<section>/<entity>/set,
   discovery homeassistant/device/<id>/config. *)

get_state_topic(d, sec, ent) ==
    service_slug \o "/" \o d \o "/" \o sec \o (IF ent = "" THEN "" ELSE "/" \o ent)
get_availability_topic(d) == service_slug \o "/" \o d \o "/availability"
get_command_topic(d, sec, ent) ==
    service_slug \o "/" \o service_slug \o "_" \o d \o "/" \o sec \o "/" \o ent \o "/set"
get_discovery_topic(ct, id) == "homeassistant/device/" \o id \o "/config"
get_device_block(name) == Map("name" :> Scal(name))

-----------------------------------------------------------------------------
(* Component trees built by build_switch and build_camera.  Fields that are
   constant decoration (uniq_id, icon, payload names, units) are left out. *)

SwitchComponent(cfg) ==
    LET d == cfg.serial_number
    IN  Map("component_type" :> Scal("switch")
            @@ "name" :> Scal(cfg.device_name \o " Armed")
            @@ "stat_t" :> Scal(get_state_topic(d, "switch", "armed"))
            @@ "cmd_t" :> Scal(get_command_topic(d, "switch", "armed"))
            @@ "avty_t" :> Scal(get_availability_topic(d))
            @@ "device" :> get_device_block(cfg.device_name))

SwitchModeNames == <<"local_storage">>

SwitchModes(cfg) ==
    LET d == cfg.serial_number
    IN  Map("local_storage" :>
                Map("component_type" :> Scal("sensor")
                    @@ "name" :> Scal("Local storage")
                    @@ "stat_t" :> Scal(get_state_topic(d, "sensor", "local_storage"))
                    @@ "avty_t" :> Scal(get_availability_topic(d))
                    @@ "device" :> get_device_block(cfg.device_name)))

CameraComponent(cfg) ==
    LET d == cfg.serial_number
    IN  Map("component_type" :> Scal("camera")
            @@ "name" :> Scal("Snapshot")
            @@ "topic" :> Scal(get_state_topic(d, "snapshot", ""))
            @@ "avty_t" :> Scal(get_availability_topic(d))
            @@ "json_attributes_topic" :> Scal(get_state_topic(d, "attributes", ""))
            @@ "device" :> get_device_block(cfg.device_name))

CameraModeNames ==
    <<"event", "motion", "motion_detection", "temperature", "battery_status", "wifi_signal">>

\* the component_type of each camera mode
CameraModeType(name) ==
    CASE name = "event" -> "camera"
      [] name = "motion" -> "binary_sensor"
      [] name = "motion_detection" -> "switch"
      [] OTHER -> "sensor"

CameraMode(cfg, name) ==
    LET d == cfg.serial_number
        ct == CameraModeType(name)
        common == "component_type" :> Scal(ct)
                  @@ "avty_t" :> Scal(get_availability_topic(d))
                  @@ "device" :> get_device_block(cfg.device_name)
    IN  CASE name = "event" ->
               Map(common @@ "name" :> Scal("Event")
                   @@ "topic" :> Scal(get_state_topic(d, "event", ""))
                   @@ "json_attributes_topic" :> Scal(get_state_topic(d, "attributes", "")))
          [] name = "motion" ->
               Map(common @@ "name" :> Scal("Motion")
                   @@ "stat_t" :> Scal(get_state_topic(d, "camera", "attributes"))
                   @@ "json_attributes_topic" :> Scal(get_state_topic(d, "attributes", "")))
          [] name = "motion_detection" ->
               Map(common @@ "name" :> Scal("Motion Detection")
                   @@ "stat_t" :> Scal(get_state_topic(d, "switch", "motion_detection"))
                   @@ "cmd_t" :> Scal(get_command_topic(d, "switch", "motion_detection")))
          [] OTHER ->
               Map(common @@ "name" :> Scal(name)
                   @@ "stat_t" :> Scal(get_state_topic(d, "sensor", name)))

CameraModes(cfg) == Map([name \in {CameraModeNames[i] : i \in 1..Len(CameraModeNames)} |->
                            CameraMode(cfg, name)])

-----------------------------------------------------------------------------
(* A handler's run is threaded through a context: the two stores as it has left
   them so far, the publishes it has made, and the exception it has raised.
   A raised exception skips the rest of the handler. *)

Ctx(dv, st) == [dv |-> dv, st |-> st, pubs |-> <<>>, err |-> "none"]
Raise(c, e) == [c EXCEPT !.err = e]
Pub(k, d, topic, v) == [k |-> k, d |-> d, topic |-> topic, v |-> v]
\* mqtt_safe_publish
Send(c, k, d, topic, v) == [c EXCEPT !.pubs = Append(@, Pub(k, d, topic, v))]
UpsertStateIn(c, d, kw) == [c EXCEPT !.st = Upsert(c.st, d, kw).store]
UpsertDeviceIn(c, d, kw) == [c EXCEPT !.dv = Upsert(c.dv, d, kw).store]
Without(f, key) == [k \in (DOMAIN f) \ {key} |-> f[k]]
\* Python truthiness of a value
Truthy(n) ==
    CASE n.t = "s" -> n.s \notin {"", "None", "False", "0"}
      [] n.t = "l" -> n.l # <<>>
      [] n.t = "m" -> DOMAIN n.m # {}
      [] OTHER -> TRUE

get_component(dv, d) == dv[d].m["component"]
get_component_type(dv, d) ==
    IF "component_type" \in DOMAIN get_component(dv, d).m
    THEN get_component(dv, d).m["component_type"].s ELSE "unknown"
get_modes(dv, d) == dv[d].m["modes"]
\* the names of a device's modes in the order the dict holds them
ModeNames(dv, d) ==
    SelectSeq(SwitchModeNames \o CameraModeNames, LAMBDA n : n \in DOMAIN get_modes(dv, d).m)

\* TopicsMixin.is_discovered, the one the composed class resolves to:
\* "KeyError" when the device has no state or its state has no "internal"
is_discovered(st, d) ==
    IF ~Has(st, d) \/ "internal" \notin DOMAIN st[d].m THEN "KeyError"
    ELSE IF "discovered" \in DOMAIN st[d].m["internal"].m
            /\ Truthy(st[d].m["internal"].m["discovered"])
    THEN "True" ELSE "False"

get_device_state_topic(dv, d, mode_name) ==
    LET component == IF mode_name # "" THEN get_modes(dv, d).m[mode_name]
                     ELSE get_component(dv, d)
    IN  IF component.m["component_type"].s = "camera"
        THEN component.m["json_attributes_topic"].s
        ELSE component.m["stat_t"].s

get_device_availability_topic(dv, d) == get_component(dv, d).m["avty_t"].s
get_device_image_topic(dv, d) == get_component(dv, d).m["topic"].s

\* states.setdefault(id, {}).setdefault("internal", {})["discovered"] = 1
MarkDiscovered(st, id) ==
    LET tree == TreeOf(st, id)
        internal == IF "internal" \in DOMAIN tree.m THEN tree.m["internal"] ELSE EmptyMap
    IN  Put(st, id, Map(SetKey(tree.m, "internal",
                               Map(SetKey(internal.m, "discovered", Scal("1"))))))

\* _publish_one of publish_device_discovery
PublishOneDiscovery(c, d, defn, suffix) ==
    LET eff_device_id == IF suffix = "" THEN d ELSE d \o "_" \o suffix
        topic == get_discovery_topic(defn.m["component_type"].s, eff_device_id)
        payload == Map(Without(defn.m, "component_type"))
        sent == Send(c, "discovery", d, topic, payload)
    IN  [sent EXCEPT !.st = MarkDiscovered(@, eff_device_id)]

RECURSIVE DiscoveryModes(_, _, _, _)
DiscoveryModes(c, d, names, i) ==
    IF i > Len(names) THEN c
    ELSE DiscoveryModes(PublishOneDiscovery(c, d, get_modes(c.dv, d).m[names[i]], names[i]),
                        d, names, i + 1)

publish_device_discovery(c, d) ==
    IF c.err # "none" THEN c
    ELSE DiscoveryModes(PublishOneDiscovery(c, d, get_component(c.dv, d), ""),
                        d, ModeNames(c.dv, d), 1)

\* _publish_one of publish_device_state: a dict goes out without its
\* component_type key (an empty one as ""), anything else as it is
PublishOneState(c, d, mode_name, defn) ==
    LET flat == IF defn.t = "m"
                THEN (IF DOMAIN Without(defn.m, "component_type") = {} THEN Scal("")
                      ELSE Map(Without(defn.m, "component_type")))
                ELSE defn
    IN  Send(c, "state", d, get_device_state_topic(c.dv, d, mode_name), flat)

RECURSIVE StateModes(_, _, _, _)
StateModes(c, d, names, i) ==
    IF i > Len(names) \/ c.err # "none" THEN c
    ELSE LET component_type == get_modes(c.dv, d).m[names[i]].m["component_type"].s
             tree == c.st[d].m
         IN  IF component_type \notin DOMAIN tree THEN Raise(c, "KeyError")
             ELSE IF tree[component_type].t = "m" /\ names[i] \notin DOMAIN tree[component_type].m
             THEN Raise(c, "KeyError")
             ELSE StateModes(PublishOneState(c, d, names[i],
                                 IF tree[component_type].t = "m"
                                 THEN tree[component_type].m[names[i]]
                                 ELSE tree[component_type]),
                             d, names, i + 1)

publish_device_state(c, d) ==
    IF c.err # "none" THEN c
    ELSE IF is_discovered(c.st, d) = "KeyError" THEN Raise(c, "KeyError")
    ELSE IF is_discovered(c.st, d) = "False" THEN c
    ELSE IF ~Has(c.dv, d) \/ get_component_type(c.dv, d) \notin DOMAIN c.st[d].m
    THEN Raise(c, "KeyError")
    ELSE StateModes(PublishOneState(c, d, "", c.st[d].m[get_component_type(c.dv, d)]),
                    d, ModeNames(c.dv, d), 1)

\* mutant: availability is published without comparing the two topics
MutAvailabilityAlways(c, d, online) ==
    IF c.err # "none" THEN c
    ELSE Send(c, "availability", d, get_device_availability_topic(c.dv, d),
              Scal(IF online THEN "online" ELSE "offline"))

publish_device_availability(c, d, online) ==
    IF c.err # "none" THEN c
    ELSE IF get_device_state_topic(c.dv, d, "") = get_device_availability_topic(c.dv, d) THEN c
    ELSE Send(c, "availability", d, get_device_availability_topic(c.dv, d),
              Scal(IF online THEN "online" ELSE "offline"))

publish_device_image(c, d, type) ==
    IF c.err # "none" THEN c
    ELSE IF Truthy(c.st[d].m[type]) /\ c.st[d].m[type].t = "s"
    THEN Send(c, "image", d, get_device_image_topic(c.dv, d), c.st[d].m[type])
    ELSE c

\* publish_service_state and publish_service_discovery, each as one message
publish_service_state(c) ==
    Send(c, "service_state", "service", get_state_topic("service", "service", ""), None)
publish_service_discovery(c) ==
    Send(c, "service_discovery", "service", get_discovery_topic("device", "service"), None)

-----------------------------------------------------------------------------
(* Building devices from a listing, and the three polls *)

\* the fixed order in which the handlers go through the serials
SerialOrder == <<"S1", "C1", "C2", "U1">>

classify_device(cfg) ==
    IF cfg.device_type = "sync_module" THEN "switch"
    ELSE IF cfg.device_type = "sedona" \/ cfg.device_type = "catalina" THEN "camera"
    ELSE "None"

build_sync_module_states(c, d, cfg) ==
    IF c.err # "none" THEN c
    ELSE UpsertStateIn(c, d,
            <<Item("switch", Map("armed" :> OnOff(cfg.arm_mode))),
              Item("sensor", Map("local_storage" :> PyBool(cfg.local_storage)))>>)

\* get_nightvision looks the camera up in self.blink.cameras before its try
\* block: a camera that is cached but no longer listed raises KeyError
build_camera_states(c, d, cams, syncs, bl) ==
    IF c.err # "none" THEN c
    ELSE IF d \in DOMAIN cams
    THEN IF cams[d].supports_get_config /\ d \notin bl.online THEN Raise(c, "KeyError")
         ELSE UpsertStateIn(c, d,
                <<Item("sensor", Map("battery_status" :> Scal("ok")
                                     @@ "temperature" :> Scal("73")
                                     @@ "wifi_signal" :> Scal("-46"))),
                  Item("binary_sensor", Map("motion" :> PyBool(FALSE))),
                  Item("switch", Map("motion_detection" :> OnOff(cams[d].motion_detection))),
                  Item("select", Map("nightvision" :>
                          Scal(IF cams[d].supports_get_config THEN "auto" ELSE "")))>>)
    ELSE IF d \in DOMAIN syncs THEN Raise(c, "KeyError")
    ELSE c

\* mutant: availability goes out before discovery
MutAvailabilityFirst(c, d) ==
    publish_device_state(publish_device_discovery(publish_device_availability(c, d, TRUE), d), d)

\* the tail of build_switch and build_camera: discovery, availability, state
PublishBuilt(c, d) ==
    publish_device_state(publish_device_availability(publish_device_discovery(c, d), d, TRUE), d)

build_switch(c, cfg) ==
    LET d == cfg.serial_number
        c1 == [c EXCEPT !.dv = IF Has(@, d) THEN @ ELSE Put(@, d, EmptyMap)]
        c2 == UpsertStateIn(c1, d, <<Item("internal", Map("raw_id" :> Scal(d)))>>)
        c3 == UpsertDeviceIn(c2, d, <<Item("component", SwitchComponent(cfg)),
                                      Item("modes", SwitchModes(cfg))>>)
        c4 == build_sync_module_states(c3, d, cfg)
        c5 == IF is_discovered(c4.st, d) = "KeyError" THEN Raise(c4, "KeyError") ELSE c4
    IN  PublishBuilt(c5, d)

build_camera(c, cfg, cams, syncs, bl) ==
    LET d == cfg.serial_number
        c1 == UpsertStateIn(c, d, <<Item("internal", Map("raw_id" :> Scal(d))),
                                    Item("camera", Scal("online")),
                                    Item("snapshot", None)>>)
        c2 == UpsertDeviceIn(c1, d, <<Item("component", CameraComponent(cfg)),
                                      Item("modes", CameraModes(cfg))>>)
        c3 == build_camera_states(c2, d, cams, syncs, bl)
        c4 == IF c3.err = "none" /\ is_discovered(c3.st, d) = "KeyError"
              THEN Raise(c3, "KeyError") ELSE c3
    IN  PublishBuilt(c4, d)

build_component(c, cfg, cams, syncs, bl) ==
    IF c.err # "none" THEN c
    ELSE CASE classify_device(cfg) = "switch" -> build_switch(c, cfg)
           [] classify_device(cfg) = "camera" -> build_camera(c, cfg, cams, syncs, bl)
           [] OTHER -> c

RECURSIVE BuildAll(_, _, _, _, _)
\* the two for loops of refresh_device_list over the cached listings
BuildAll(c, i, cams, syncs, bl) ==
    IF i > Len(SerialOrder) THEN c
    ELSE LET d == SerialOrder[i]
             built == IF d \in DOMAIN syncs THEN build_component(c, syncs[d], cams, syncs, bl)
                      ELSE IF d \in DOMAIN cams THEN build_component(c, cams[d], cams, syncs, bl)
                      ELSE c
         IN  BuildAll(built, i + 1, cams, syncs, bl)

\* mutant: the poll forgets the devices that the vendor no longer lists
MutPruneMissing(dv, st, cams, syncs, bl) ==
    LET keep(f) == [x \in (DOMAIN f) \ (Serials \ bl.online) |-> f[x]]
    IN  BuildAll(publish_service_state(Ctx(keep(dv), keep(st))), 1, keep(cams), syncs, bl)

\* refresh_device_list after the listings have been fetched; the block that
\* would mark missing devices offline is commented out in the source
DeviceListPoll(dv, st, cams, syncs, bl) ==
    BuildAll(publish_service_state(Ctx(dv, st)), 1, cams, syncs, bl)

handle_sync_module(c, d, cfg) == publish_device_state(build_sync_module_states(c, d, cfg), d)

\* mutant: the state goes out before the poll's values are merged
MutPublishThenBuild(c, d, cams, syncs, bl) ==
    build_camera_states(publish_device_state(c, d), d, cams, syncs, bl)

handle_camera(c, d, cams, syncs, bl) ==
    publish_device_state(build_camera_states(c, d, cams, syncs, bl), d)

RECURSIVE Gather(_, _, _, _, _)
\* asyncio.gather over one task per cached device: a task that raises does not
\* stop the others, and the first exception is the one gather raises
Gather(c, i, cams, syncs, bl) ==
    IF i > Len(SerialOrder) THEN c
    ELSE LET d == SerialOrder[i]
             fresh == [c EXCEPT !.err = "none"]
             done == IF d \in DOMAIN syncs THEN handle_sync_module(fresh, d, syncs[d])
                     ELSE IF d \in DOMAIN cams THEN handle_camera(fresh, d, cams, syncs, bl)
                     ELSE fresh
         IN  Gather([done EXCEPT !.err = IF c.err # "none" THEN c.err ELSE @],
                    i + 1, cams, syncs, bl)

\* refresh_all_devices after the listings have been fetched
AttributePoll(dv, st, cams, syncs, bl) == Gather(Ctx(dv, st), 1, cams, syncs, bl)

\* mutant: a non-empty image is stored and published without comparing it
MutStoreAlways(c, d, type, image, cams, bl) ==
    IF d \in DOMAIN cams /\ d \notin bl.online THEN Raise(c, "KeyError")
    ELSE IF d \notin DOMAIN cams \/ image = "" THEN c
    ELSE LET c1 == [c EXCEPT !.st = Put(@, d, Map(SetKey(c.st[d].m, type, Scal(image))))]
         IN  publish_device_image(publish_device_state(c1, d), d, type)

\* refresh_snapshot for one camera, image being what the vendor's cache holds
\* ("" for an empty cache).  Both lookups in self.blink.cameras happen outside
\* a try block.
refresh_snapshot(c, d, type, image, cams, bl) ==
    IF d \in DOMAIN cams /\ d \notin bl.online THEN Raise(c, "KeyError")
    ELSE IF d \notin DOMAIN cams \/ image = "" THEN c
    ELSE IF type \notin DOMAIN c.st[d].m \/ c.st[d].m[type] = None
            \/ c.st[d].m[type] # Scal(image)
    THEN LET c1 == [c EXCEPT !.st = Put(@, d, Map(SetKey(c.st[d].m, type, Scal(image))))]
             c2 == UpsertStateIn(c1, d,
                      <<Item("sensor", Map("last_event" :> Scal("Timed snapshot")
                                           @@ "last_event_time" :> Scal("now")))>>)
         IN  publish_device_image(publish_device_state(c2, d), d, type)
    ELSE c

RECURSIVE SnapshotModes(_, _, _, _, _, _, _)
\* one pair of tasks for every mode of the device that is a camera
SnapshotModes(c, d, names, i, image, cams, bl) ==
    IF i > Len(names) THEN c
    ELSE LET fresh == [c EXCEPT !.err = "none"]
             done == IF get_modes(c.dv, d).m[names[i]].m["component_type"].s = "camera"
                     THEN refresh_snapshot(fresh, d, "snapshot", image, cams, bl)
                     ELSE fresh
         IN  SnapshotModes([done EXCEPT !.err = IF c.err # "none" THEN c.err ELSE @],
                           d, names, i + 1, image, cams, bl)

RECURSIVE SnapshotAll(_, _, _, _, _)
\* the for loop over self.devices: is_discovered raising ends the loop, a task
\* raising does not
SnapshotAll(c, i, image, cams, bl) ==
    IF i > Len(SerialOrder) THEN c
    ELSE LET d == SerialOrder[i]
         IN  IF ~Has(c.dv, d) THEN SnapshotAll(c, i + 1, image, cams, bl)
             ELSE IF is_discovered(c.st, d) = "KeyError" THEN Raise(c, "KeyError")
             ELSE IF is_discovered(c.st, d) = "False" THEN SnapshotAll(c, i + 1, image, cams, bl)
             ELSE SnapshotAll(SnapshotModes(c, d, ModeNames(c.dv, d), 1, image, cams, bl),
                              i + 1, image, cams, bl)

\* refresh_snapshot_all_devices
SnapshotPoll(dv, st, image, cams, bl) == SnapshotAll(Ctx(dv, st), 1, image, cams, bl)

RECURSIVE RediscoverDevices(_, _)
RediscoverDevices(c, i) ==
    IF i > Len(SerialOrder) THEN c
    ELSE RediscoverDevices(
            IF Has(c.dv, SerialOrder[i])
            THEN publish_device_discovery(publish_device_state(c, SerialOrder[i]), SerialOrder[i])
            ELSE c,
            i + 1)

\* rediscover_all: service state, service discovery, then per device state and discovery
RediscoverAll(dv, st) ==
    RediscoverDevices(publish_service_discovery(publish_service_state(Ctx(dv, st))), 1)

\* the idle command coroutine, the record of a step, the empty vendor account
Idle == [pc |-> "idle", dev |-> "", handler |-> "", message |-> "", attempt |-> 0]
Op(name) == [op |-> name, dev |-> "", handler |-> "", message |-> ""]
CmdOp(name, c) == [op |-> name, dev |-> c.dev, handler |-> c.handler, message |-> c.message]
NoBlink == [online |-> {}, armed |-> [d \in Serials |-> FALSE]]
NoCycle == [pc |-> "idle", ready |-> <<>>, take |-> <<>>, fetch |-> <<>>, events |-> <<>>]
\* the four loop tasks that main_loop creates, each in its first sleep
Loops == {"device_list_loop", "device_loop", "collect_snapshots_loop", "heartbeat"}
StartedLoops == [pc |-> [l \in Loops |-> "sleeping"], main |-> "gathering", timer |-> FALSE,
                 late |-> [l \in Loops |-> 0]]
\* the intervals the configuration gives when it names none (helpers.py:190-192)
ConfiguredIntervals ==
    [device_interval |-> 30, device_list_interval |-> 3600, snapshot_update_interval |-> 5]
\* the service object as __init__ leaves it: no broker client, no API session
Constructed ==
    [pc |-> "constructed", mqttc |-> 0, client_id |-> 1, connected |-> FALSE,
     session |-> "none", ready |-> FALSE, tasks |-> FALSE, log |-> <<>>]
\* the service once main_loop has started its loop tasks
StartedService ==
    [Constructed EXCEPT !.pc = "looping", !.mqttc = 1, !.connected = TRUE,
                        !.session = "open", !.ready = TRUE, !.tasks = TRUE]
NoMessage == [n |-> 0, topic |-> "", payload |-> None, parsed |-> <<>>, raised |-> "none",
              calls |-> <<>>, scheduled |-> <<>>, subs |-> {}]

-----------------------------------------------------------------------------
(* Direct calls of the two upserts with arbitrary partial trees *)

DevIds == {"DEV001"}
Sections == {"sensor", "switch"}
Keys == {"temperature", "battery"}
MaxCalls == 2

Scalars == {Scal("72"), Scal("OK")}
Lists == {Lst(<<Scal("72")>>), Lst(<<Scal("OK"), Scal("OK")>>)}
Leaves == Scalars \cup Lists
InnerVals == {Scal("72"), Lst(<<Scal("OK"), Scal("OK")>>)}
MapsOver(V) == UNION {[K -> V] : K \in SUBSET Keys}
Dicts == {Map(f) : f \in MapsOver(InnerVals)}
Bad == {Tup, Map([k \in {TupleKey} |-> Scal("72")])}
Data == Leaves \cup Dicts \cup Bad

\* one keyword argument, or two for different sections, or none
KwArgs ==
    {<<>>}
    \cup {<<Item(sec, v)>> : sec \in Sections, v \in Data}
    \cup {<<Item("sensor", v), Item("switch", w)>> :
             v \in {Map([k \in {"temperature"} |-> Scal("72")])},
             w \in {Scal("OK"), Tup, Map([k \in {"battery"} |-> Scal("OK")])}}

NoCall == [op |-> "none", dev |-> "", kw |-> <<>>, pre |-> <<>>, post |-> <<>>,
           changed |-> FALSE, err |-> "none"]

Record(op, d, kw, pre, r) ==
    [op |-> op, dev |-> d, kw |-> kw, pre |-> pre, post |-> r.store,
     changed |-> r.changed, err |-> r.err]

upsert_state(d, kw) ==
    /\ ncalls < MaxCalls
    /\ LET r == Upsert(states, d, kw)
       IN  /\ states' = r.store
           /\ call' = Record("upsert_state", d, kw, states, r)
    /\ prevCall' = call
    /\ ncalls' = ncalls + 1
    /\ UNCHANGED <<devices, sysVars, extVars>>

upsert_device(d, kw) ==
    /\ ncalls < MaxCalls
    /\ LET r == Upsert(devices, d, kw)
       IN  /\ devices' = r.store
           /\ call' = Record("upsert_device", d, kw, devices, r)
    /\ prevCall' = call
    /\ ncalls' = ncalls + 1
    /\ UNCHANGED <<states, sysVars, extVars>>

vars == <<devices, states, call, prevCall, ncalls, blink, blink_cameras,
          blink_sync_modules, discovery_complete, running, cmd, pubs, last, err,
          announced, listed, nchanges, ncommands, cycle, mq, loops, intervals,
          svc>>

\* a store that earlier upserts have filled: the result of one call on the empty store
Preloaded ==
    Upsert(<<>>, "DEV001",
           <<Item("sensor", Map([k \in {"temperature"} |-> Scal("72")])),
             Item("switch", Lst(<<Scal("72")>>))>>).store

InitUpsert ==
    /\ \E s \in {<<>>, Preloaded} : devices = s /\ states = s
    /\ call = NoCall
    /\ prevCall = NoCall
    /\ ncalls = 0
    /\ blink = NoBlink
    /\ blink_cameras = <<>>
    /\ blink_sync_modules = <<>>
    /\ discovery_complete = FALSE
    /\ running = TRUE
    /\ cmd = Idle
    /\ pubs = <<>>
    /\ last = Op("none")
    /\ err = "none"
    /\ announced = {}
    /\ listed = {}
    /\ nchanges = 0
    /\ ncommands = 0
    /\ cycle = NoCycle
    /\ mq = NoMessage
    /\ loops = StartedLoops
    /\ intervals = ConfiguredIntervals
    /\ svc = StartedService

NextUpsert ==
    \/ \E d \in DevIds, kw \in KwArgs : upsert_state(d, kw)
    \/ \E d \in DevIds, kw \in KwArgs : upsert_device(d, kw)

SpecUpsert == InitUpsert /\ [][NextUpsert]_vars

-----------------------------------------------------------------------------
(* The running service: the three polls, rediscovery, commands, and the vendor
   side changing under it.  A poll that raises ends its loop task, main_loop
   catches that and clears self.running. *)

MaxChanges == 1
MaxCommands == 1
max_retries == 5
Images == {"", "img1"}
Handlers == {"motion_detection", "nightvision", "armed", "volume"}
Messages(h) == IF h \in {"motion_detection", "armed"} THEN {"ON", "OFF"} ELSE {"auto"}
Outcomes == {"completed", "busy", "rejected", "exception"}


\* the devices among the recipients of the discovery messages in a run of publishes
Announced(q) == {q[i].d : i \in {j \in 1..Len(q) : q[j].k = "discovery"}}

\* what every step leaves behind from the context of its handler
Commit(c, l) ==
    /\ devices' = c.dv
    /\ states' = c.st
    /\ pubs' = c.pubs
    /\ err' = c.err
    /\ last' = l
    /\ announced' = announced \cup Announced(pubs)

refresh_device_list ==
    /\ running
    /\ LET cams == get_cameras(blink, blink_cameras)
           syncs == get_sync_modules(blink, blink_sync_modules)
           c == DeviceListPoll(devices, states, cams, syncs, blink)
       IN  /\ blink_cameras' = cams
           /\ blink_sync_modules' = syncs
           /\ Commit(c, Op("refresh_device_list"))
           /\ discovery_complete' = (discovery_complete \/ c.err = "none")
           /\ running' = (c.err = "none")
    /\ listed' = blink.online
    /\ UNCHANGED <<blink, cmd, nchanges, ncommands, callVars, extVars>>

refresh_all_devices ==
    /\ running /\ discovery_complete
    /\ LET cams == get_cameras(blink, blink_cameras)
           syncs == get_sync_modules(blink, blink_sync_modules)
           c == AttributePoll(devices, states, cams, syncs, blink)
       IN  /\ blink_cameras' = cams
           /\ blink_sync_modules' = syncs
           /\ Commit(c, Op("refresh_all_devices"))
           /\ running' = (c.err = "none")
    /\ UNCHANGED <<blink, discovery_complete, cmd, listed, nchanges, ncommands, callVars, extVars>>

refresh_snapshot_all_devices(image) ==
    /\ running /\ discovery_complete
    /\ LET c == SnapshotPoll(devices, states, image, blink_cameras, blink)
       IN  /\ Commit(c, Op("refresh_snapshot_all_devices"))
           /\ running' = (c.err = "none")
    /\ UNCHANGED <<blink, blink_cameras, blink_sync_modules, discovery_complete, cmd,
                   listed, nchanges, ncommands, callVars, extVars>>

rediscover_all ==
    /\ running
    /\ Commit(RediscoverAll(devices, states), Op("rediscover_all"))
    /\ UNCHANGED <<blink, blink_cameras, blink_sync_modules, discovery_complete, running,
                   cmd, listed, nchanges, ncommands, callVars, extVars>>

\* the section and leaf a handler writes after a successful setter call
LeafOf(h) == IF h = "motion_detection" THEN <<"switch", "motion_detection">>
             ELSE <<"select", "nightvision">>

\* mutant: the leaf is written and published whatever the setter returned
MutWriteAlways(success, dv, st, c) ==
    publish_device_state(
        UpsertStateIn(Ctx(dv, st), c.dev,
            <<Item(LeafOf(c.handler)[1], Map(LeafOf(c.handler)[2] :> Scal(c.message)))>>),
        c.dev)

\* if success: upsert_state(...) and publish_device_state(...)
CommandEffect(success, dv, st, c) ==
    IF success
    THEN publish_device_state(
            UpsertStateIn(Ctx(dv, st), c.dev,
                <<Item(LeafOf(c.handler)[1], Map(LeafOf(c.handler)[2] :> Scal(c.message)))>>),
            c.dev)
    ELSE Ctx(dv, st)

\* where the setter looks its device up before the first attempt
SetterLookup(d, h) ==
    IF h = "motion_detection"
    THEN IF d \in DOMAIN blink_cameras \/ d \in DOMAIN blink_sync_modules
         THEN (IF d \in blink.online THEN "found" ELSE "KeyError")
         ELSE "unknown"
    ELSE IF d \in DOMAIN blink_cameras /\ d \in blink.online THEN "found" ELSE "KeyError"

\* mutant: the leaf is written and published before the setter is invoked
MutOptimisticCommand(d, h, m) ==
    /\ running /\ cmd.pc = "idle" /\ ncommands < MaxCommands
    /\ ncommands' = ncommands + 1
    /\ Has(devices, d) /\ Truthy(devices[d])
    /\ LET asked == [pc |-> "awaiting", dev |-> d, handler |-> h, message |-> m, attempt |-> 1]
           found == h \in {"motion_detection", "nightvision"} /\ SetterLookup(d, h) = "found"
       IN  /\ cmd' = IF found THEN asked ELSE Idle
           /\ Commit(IF found THEN MutWriteAlways(TRUE, devices, states, asked)
                     ELSE Ctx(devices, states),
                     CmdOp(IF found THEN "command_invoked" ELSE "command_failed", asked))
    /\ UNCHANGED <<blink, blink_cameras, blink_sync_modules, discovery_complete, running,
                   listed, nchanges, callVars, extVars>>

\* handle_device_command up to its first await: the setter has been invoked
handle_device_command(d, h, m) ==
    /\ running /\ cmd.pc = "idle" /\ ncommands < MaxCommands
    /\ ncommands' = ncommands + 1
    /\ Has(devices, d) /\ Truthy(devices[d])
    /\ LET asked == [pc |-> "awaiting", dev |-> d, handler |-> h, message |-> m, attempt |-> 1]
           found == h \in {"motion_detection", "nightvision"} /\ SetterLookup(d, h) = "found"
       IN  /\ cmd' = IF found THEN asked ELSE Idle
           /\ err' = IF h \in {"motion_detection", "nightvision"} /\ SetterLookup(d, h) = "KeyError"
                     THEN "KeyError" ELSE "none"
           /\ last' = CmdOp(IF found THEN "command_invoked"
                            ELSE IF h \notin {"motion_detection", "nightvision"} THEN "command_unknown"
                            ELSE IF SetterLookup(d, h) = "KeyError" THEN "command_raised"
                            ELSE "command_failed", asked)
    /\ pubs' = <<>>
    /\ announced' = announced \cup Announced(pubs)
    /\ UNCHANGED <<devices, states, blink, blink_cameras, blink_sync_modules,
                   discovery_complete, running, listed, nchanges, callVars, extVars>>

\* mutant: a busy answer is taken for a failure
MutBusyIsFailure(response) ==
    CASE response = "completed" -> "True"
      [] OTHER -> "False"

\* handle_blink_response: code 307 -> None (retry), state_stage completed -> True,
\* anything else -> False
handle_blink_response(response) ==
    CASE response = "busy" -> "None"
      [] response = "completed" -> "True"
      [] OTHER -> "False"

\* the setter's outcome for one attempt: "retry" after a busy answer or an
\* exception, else the value the setter returns
Attempt(outcome) ==
    IF outcome = "exception" \/ handle_blink_response(outcome) = "None" THEN "retry"
    ELSE handle_blink_response(outcome)

\* mutant: a busy answer or an exception is retried without counting the attempts
MutRetryForever(outcome) ==
    /\ running /\ cmd.pc = "awaiting"
    /\ LET r == Attempt(outcome)
           again == r = "retry"
       IN  /\ cmd' = IF again THEN [cmd EXCEPT !.attempt = @ + 1] ELSE Idle
           /\ Commit(CommandEffect(r = "True", devices, states, cmd),
                     CmdOp(CASE again -> "command_retry"
                             [] r = "True" -> "command_succeeded"
                             [] OTHER -> "command_failed", cmd))
           /\ blink' = IF outcome = "completed" /\ cmd.handler = "motion_detection"
                       THEN [blink EXCEPT !.armed[cmd.dev] = (cmd.message = "ON")]
                       ELSE blink
    /\ UNCHANGED <<blink_cameras, blink_sync_modules, discovery_complete, running,
                   listed, nchanges, ncommands, callVars, extVars>>

\* the awaited setter call of the current attempt comes back
setter_returns(outcome) ==
    /\ running /\ cmd.pc = "awaiting"
    /\ LET r == Attempt(outcome)
           again == r = "retry" /\ cmd.attempt < max_retries
       IN  /\ cmd' = IF again THEN [cmd EXCEPT !.attempt = @ + 1] ELSE Idle
           /\ Commit(CommandEffect(r = "True", devices, states, cmd),
                     CmdOp(CASE again -> "command_retry"
                             [] r = "retry" -> "command_gave_up"
                             [] r = "True" -> "command_succeeded"
                             [] OTHER -> "command_failed", cmd))
           /\ blink' = IF outcome = "completed" /\ cmd.handler = "motion_detection"
                       THEN [blink EXCEPT !.armed[cmd.dev] = (cmd.message = "ON")]
                       ELSE blink
    /\ UNCHANGED <<blink_cameras, blink_sync_modules, discovery_complete, running,
                   listed, nchanges, ncommands, callVars, extVars>>

\* the vendor side changes: a camera joins or leaves the account
blink_changes(d) ==
    /\ running /\ nchanges < MaxChanges
    /\ blink' = [blink EXCEPT !.online = IF d \in @ THEN @ \ {d} ELSE @ \cup {d}]
    /\ nchanges' = nchanges + 1
    /\ pubs' = <<>>
    /\ err' = "none"
    /\ last' = Op("blink_changes")
    /\ announced' = announced \cup Announced(pubs)
    /\ UNCHANGED <<devices, states, blink_cameras, blink_sync_modules, discovery_complete,
                   running, cmd, listed, ncommands, callVars, extVars>>

Init ==
    /\ devices = <<>>
    /\ states = <<>>
    /\ \E on \in SUBSET Cameras : blink = [NoBlink EXCEPT !.online = SyncModules \cup on]
    /\ blink_cameras = <<>>
    /\ blink_sync_modules = <<>>
    /\ discovery_complete = FALSE
    /\ running = TRUE
    /\ cmd = Idle
    /\ pubs = <<>>
    /\ last = Op("none")
    /\ err = "none"
    /\ announced = {}
    /\ listed = {}
    /\ nchanges = 0
    /\ ncommands = 0
    /\ cycle = NoCycle
    /\ mq = NoMessage
    /\ loops = StartedLoops
    /\ intervals = ConfiguredIntervals
    /\ svc = StartedService
    /\ call = NoCall
    /\ prevCall = NoCall
    /\ ncalls = 0

Next ==
    \/ refresh_device_list
    \/ refresh_all_devices
    \/ \E image \in Images : refresh_snapshot_all_devices(image)
    \/ rediscover_all
    \/ \E d \in Serials, h \in Handlers : \E m \in Messages(h) : handle_device_command(d, h, m)
    \/ \E outcome \in Outcomes : setter_returns(outcome)
    \/ \E d \in Cameras : blink_changes(d)

Spec == Init /\ [][Next]_vars

-----------------------------------------------------------------------------
(* One run of refresh_snapshot_all_devices, task by task.  asyncio.create_task
   puts a task on the event loop's ready queue at once, so both tasks of every
   camera are queued, in creation order, before the handler reaches its first
   gather.  A task runs from the head of the queue up to its first real
   suspension: take_snapshot_from_device suspends in camera.snap_picture(),
   refresh_snapshot reads the vendor's cache without suspending. *)

CycleCameras == {"C1", "C2"}

\* await self.blink_refresh(), then the for loop that creates the two tasks of
\* every camera mode of every discovered device, up to the first gather
snapshot_cycle_starts ==
    /\ running /\ cycle.pc = "idle"
    /\ LET el == SelectSeq(SerialOrder, LAMBDA d :
                    /\ Has(devices, d) /\ is_discovered(states, d) = "True"
                    /\ \E n \in DOMAIN get_modes(devices, d).m :
                          get_modes(devices, d).m[n].m["component_type"].s = "camera")
           ds == {el[i] : i \in 1..Len(el)}
       IN  cycle' = [pc |-> "gather1",
                     ready |-> [i \in 1..(2 * Len(el)) |->
                                   IF i % 2 = 1 THEN <<"take", el[(i + 1) \div 2]>>
                                   ELSE <<"fetch", el[i \div 2]>>],
                     take |-> [d \in ds |-> "created"],
                     fetch |-> [d \in ds |-> "created"],
                     events |-> <<[e |-> "blink_refresh", d |-> ""]>>]
    /\ Commit(Ctx(devices, states), Op("refresh_snapshot_all_devices"))
    /\ UNCHANGED <<blink, blink_cameras, blink_sync_modules, discovery_complete, running,
                   cmd, listed, nchanges, ncommands, callVars, mq, loops,
                   intervals, svc>>

\* the event loop runs the task at the head of the ready queue
task_runs(image) ==
    /\ cycle.ready # <<>>
    /\ LET kind == Head(cycle.ready)[1]
           d == Head(cycle.ready)[2]
           c == IF kind = "fetch"
                THEN refresh_snapshot(Ctx(devices, states), d, "snapshot", image,
                                      blink_cameras, blink)
                ELSE Ctx(devices, states)
       IN  /\ cycle' = [cycle EXCEPT
                 !.ready = Tail(@),
                 !.take[d] = IF kind # "take" THEN @
                             ELSE IF d \notin DOMAIN blink_cameras THEN "done"
                             ELSE IF d \notin blink.online THEN "raised"
                             ELSE "awaiting",
                 !.fetch[d] = IF kind # "fetch" THEN @
                              ELSE IF c.err = "none" THEN "done" ELSE "raised",
                 !.events = Append(@, [e |-> kind, d |-> d])]
           /\ Commit(c, [Op(IF kind = "take" THEN "take_snapshot_from_device"
                            ELSE "refresh_snapshot") EXCEPT !.dev = d])
    /\ UNCHANGED <<blink, blink_cameras, blink_sync_modules, discovery_complete, running,
                   cmd, listed, nchanges, ncommands, callVars, mq, loops,
                   intervals, svc>>

\* camera.snap_picture() returns or raises: either way take_snapshot_from_device ends
snap_picture_returns(d) ==
    /\ d \in DOMAIN cycle.take /\ cycle.take[d] = "awaiting"
    /\ cycle' = [cycle EXCEPT !.take[d] = "done", !.events = Append(@, [e |-> "taken", d |-> d])]
    /\ Commit(Ctx(devices, states), [Op("snap_picture_returns") EXCEPT !.dev = d])
    /\ UNCHANGED <<blink, blink_cameras, blink_sync_modules, discovery_complete, running,
                   cmd, listed, nchanges, ncommands, callVars, mq, loops,
                   intervals, svc>>

\* the handler comes back from a gather: with the first exception as soon as a
\* task of the gathered list has raised, otherwise once all of them are done
gather_returns ==
    /\ cycle.pc \in {"gather1", "gather2"}
    /\ LET tasks == IF cycle.pc = "gather1" THEN cycle.take ELSE cycle.fetch
           raised == \E d \in DOMAIN tasks : tasks[d] = "raised"
       IN  /\ raised \/ \A d \in DOMAIN tasks : tasks[d] = "done"
           /\ cycle' = [cycle EXCEPT !.pc = IF raised THEN "raised"
                                            ELSE IF @ = "gather1" THEN "gather2" ELSE "done"]
           /\ running' = ~raised
           /\ Commit(IF raised THEN Raise(Ctx(devices, states), "KeyError")
                     ELSE Ctx(devices, states), Op("gather_returns"))
    /\ UNCHANGED <<blink, blink_cameras, blink_sync_modules, discovery_complete,
                   cmd, listed, nchanges, ncommands, callVars, mq, loops,
                   intervals, svc>>

\* the service after a device-list poll that listed both cameras; since then
\* any of them may have left the account
InitCycle ==
    /\ LET bl == [online |-> CycleCameras, armed |-> [d \in CycleCameras |-> FALSE]]
           cams == [d \in CycleCameras |-> CameraEntry(bl, d)]
       IN  /\ \E c \in {DeviceListPoll(<<>>, <<>>, cams, <<>>, bl)} :
                  devices = c.dv /\ states = c.st
           /\ blink_cameras = cams
           /\ \E on \in SUBSET CycleCameras : blink = [bl EXCEPT !.online = on]
    /\ blink_sync_modules = <<>>
    /\ discovery_complete = TRUE
    /\ running = TRUE
    /\ cmd = Idle
    /\ pubs = <<>>
    /\ last = Op("none")
    /\ err = "none"
    /\ announced = CycleCameras
    /\ listed = CycleCameras
    /\ nchanges = 0
    /\ ncommands = 0
    /\ call = NoCall
    /\ prevCall = NoCall
    /\ ncalls = 0
    /\ cycle = NoCycle
    /\ mq = NoMessage
    /\ loops = StartedLoops
    /\ intervals = ConfiguredIntervals
    /\ svc = StartedService

NextCycle ==
    \/ snapshot_cycle_starts
    \/ \E image \in Images : task_runs(image)
    \/ \E d \in CycleCameras : snap_picture_returns(d)
    \/ gather_returns

SpecCycle == InitCycle /\ [][NextCycle]_vars

-----------------------------------------------------------------------------
(* Inbound broker messages.  paho calls mqtt_on_message on its network thread;
   a device command it accepts is handed to the event loop with
   run_coroutine_threadsafe and runs there later.  rediscover_all and
   handle_service_command are coroutine functions that the handler calls
   without awaiting, so those two branches have no effect on the service. *)

MaxMessages == 2

\* str.split(sep) on a topic or on a topic segment
Split(s, sep) ==
    LET RECURSIVE Cut(_, _)
        Cut(from, i) ==
            IF i > Len(s) THEN <<SubSeq(s, from, Len(s))>>
            ELSE IF SubSeq(s, i, i) = sep THEN <<SubSeq(s, from, i - 1)>> \o Cut(i + 1, i + 1)
            ELSE Cut(from, i + 1)
    IN  Cut(1, 1)

\* json.loads, then UTF-8 text, then None; "<ff>" stands for bytes that are not UTF-8
_decode_payload(raw) ==
    CASE raw = "<ff>" -> None
      [] raw = "null" -> None
      [] raw = "{}" -> EmptyMap
      [] Len(raw) >= 2 /\ SubSeq(raw, 1, 1) = "\"" /\ SubSeq(raw, Len(raw), Len(raw)) = "\"" ->
            Scal(SubSeq(raw, 2, Len(raw) - 1))
      [] OTHER -> Scal(raw)

\* <<>> for None, <<vendor, device_id, attribute>> for case 1 and
\* <<vendor, device_id>> (attribute None) for case 2
_parse_device_topic(components) ==
    LET n == Len(components)
        Under(seg) == Len(Split(seg, "_")) > 1
        vendor(seg) == Split(seg, "_")[1]
        device_id(seg) == SubSeq(seg, Len(vendor(seg)) + 2, Len(seg))
    IN  IF components[n] # "set" THEN <<>>
        ELSE IF n >= 5 /\ Under(components[n - 2])
        THEN <<vendor(components[n - 2]), device_id(components[n - 2]), components[n - 1]>>
        ELSE IF n >= 4 /\ Under(components[n - 1])
        THEN <<vendor(components[n - 1]), device_id(components[n - 1])>>
        ELSE <<>>

\* mutant: a scalar payload is wrapped as {attribute: payload} before the dispatch
MutWrapScalar(components, payload, dv) ==
    LET parsed == _parse_device_topic(components)
        startswith(s, prefix) == Len(s) >= Len(prefix) /\ SubSeq(s, 1, Len(prefix)) = prefix
        dropped == [parsed |-> parsed, calls |-> <<>>]
    IN  IF parsed = <<>> THEN dropped
        ELSE IF parsed[1] = "" \/ ~startswith(parsed[1], service_slug) THEN dropped
        ELSE IF parsed[2] = "" \/ Len(parsed) < 3 \/ parsed[3] = "" THEN dropped
        ELSE IF ~Has(dv, parsed[2]) \/ ~Truthy(dv[parsed[2]]) THEN dropped
        ELSE [parsed |-> parsed,
              calls |-> <<[device_id |-> parsed[2], handler |-> parsed[3],
                           message |-> IF payload.t = "m" THEN payload
                                       ELSE Map(parsed[3] :> payload)]>>]

\* the calls of handle_device_command that the handler hands to the event loop
_handle_device_topic(components, payload, dv) ==
    LET parsed == _parse_device_topic(components)
        startswith(s, prefix) == Len(s) >= Len(prefix) /\ SubSeq(s, 1, Len(prefix)) = prefix
        dropped == [parsed |-> parsed, calls |-> <<>>]
    IN  IF parsed = <<>> THEN dropped
        ELSE IF parsed[1] = "" \/ ~startswith(parsed[1], service_slug) THEN dropped
        ELSE IF parsed[2] = "" \/ Len(parsed) < 3 \/ parsed[3] = "" THEN dropped
        ELSE IF ~Has(dv, parsed[2]) \/ ~Truthy(dv[parsed[2]]) THEN dropped
        ELSE [parsed |-> parsed,
              calls |-> <<[device_id |-> parsed[2], handler |-> parsed[3], message |-> payload]>>]

\* mqtt_on_connect, called by the client's thread when the broker answers the
\* first connect of the session (a reconnect runs the same callback again): a
\* refused connect clears self.running; an accepted one publishes the service's
\* discovery, availability and state and subscribes
mqtt_on_connect(reason_code) ==
    /\ mq.subs = {}
    /\ IF reason_code # 0
       THEN /\ running' = FALSE
            /\ mq' = mq
            /\ Commit(Ctx(devices, states), Op("mqtt_on_connect"))
       ELSE /\ running' = running
            /\ mq' = [mq EXCEPT !.subs = {"homeassistant/status",
                                          service_slug \o "/service/+/set",
                                          service_slug \o "/service/+/command",
                                          service_slug \o "/switch/#"}]
            /\ Commit(publish_service_state(
                          Send(publish_service_discovery(Ctx(devices, states)),
                               "service_availability", "service",
                               get_state_topic("service", "status", ""), Scal("online"))),
                      [Op("mqtt_on_connect") EXCEPT !.message = "accepted"])
    /\ UNCHANGED <<blink, blink_cameras, blink_sync_modules, discovery_complete,
                   cmd, listed, nchanges, ncommands, callVars, cycle, loops,
                   intervals, svc>>

\* mqtt_on_message.  components[1] and components[2] of the source are read
\* without a length check; once the callback has raised, paho's network thread
\* has ended and no further message is handled.  The broker delivers nothing
\* to a session that has not subscribed.
mqtt_on_message(topic, raw) ==
    /\ running /\ mq.n < MaxMessages /\ mq.raised = "none"
    /\ mq.subs # {}
    /\ LET payload == _decode_payload(raw)
           components == Split(topic, "/")
           n == Len(components)
           dropped == [parsed |-> <<>>, calls |-> <<>>, raised |-> "none"]
           IndexError == [dropped EXCEPT !.raised = "IndexError"]
           r == IF topic = "" \/ ~Truthy(payload) THEN dropped
                ELSE IF components[1] = "homeassistant" THEN dropped
                ELSE IF components[1] # service_slug THEN dropped
                ELSE IF n < 2 THEN IndexError
                ELSE IF components[2] = "service" THEN (IF n < 3 THEN IndexError ELSE dropped)
                ELSE _handle_device_topic(components, payload, devices) @@ dropped
       IN  /\ mq' = [n |-> mq.n + 1, topic |-> topic, payload |-> payload, parsed |-> r.parsed,
                     raised |-> r.raised, calls |-> r.calls,
                     scheduled |-> mq.scheduled \o r.calls, subs |-> mq.subs]
           /\ err' = r.raised
    /\ pubs' = <<>>
    /\ last' = Op("mqtt_on_message")
    /\ announced' = announced \cup Announced(pubs)
    /\ UNCHANGED <<devices, states, blink, blink_cameras, blink_sync_modules,
                   discovery_complete, running, cmd, listed, nchanges, ncommands,
                   callVars, cycle, loops,
                   intervals, svc>>

\* the event loop starts the next coroutine that the handler has scheduled
scheduled_command_runs ==
    /\ ncommands < Len(mq.scheduled)
    /\ handle_device_command(mq.scheduled[ncommands + 1].device_id,
                             mq.scheduled[ncommands + 1].handler,
                             mq.scheduled[ncommands + 1].message.s)

\* the sections and entities that have a command topic
CommandEntities ==
    {<<"switch", "motion_detection">>, <<"select", "nightvision">>, <<"binary_sensor", "motion">>}

\* the topics of the messages the broker delivers
Topics ==
    {get_command_topic(d, e[1], e[2]) : d \in {"C1"}, e \in CommandEntities}
    \cup {"blink2mqtt/switch/blink2mqtt_C1/motion_detection/set",
          "blink2mqtt/switch/blink2mqtt_C2/nightvision/set",
          "blink2mqtt/switch/blink2mqtt_C9/motion_detection/set",
          "blink2mqtt/switch/blink2mqttX_C1/motion_detection/set",
          "blink2mqtt/switch/zigbee2mqtt_C1/motion_detection/set",
          "blink2mqtt/switch/blink2mqtt_C1/motion_detection/get",
          "blink2mqtt/switch/blink2mqtt_C1/set",
          "blink2mqtt/service/refresh_interval/set",
          "blink2mqtt/service",
          "blink2mqtt",
          "homeassistant/status",
          "zigbee2mqtt/switch/blink2mqtt_C1/motion_detection/set"}

RawPayloads == {"ON", "\"OFF\"", "15", "online", "", "null", "{}", "<ff>"}

NextMessages ==
    \/ \E reason_code \in {0, 5} : mqtt_on_connect(reason_code)
    \/ \E topic \in Topics, raw \in RawPayloads : mqtt_on_message(topic, raw)
    \/ scheduled_command_runs
    \/ \E outcome \in Outcomes : setter_returns(outcome)

SpecMessages == InitCycle /\ [][NextMessages]_vars

-----------------------------------------------------------------------------
(* The loop tasks.  Each is `while self.running: sleep; unit of work`, with
   only asyncio.CancelledError caught; main_loop gathers the four tasks.
   loops.late counts the units of work a loop has started since self.running
   became false. *)

\* the count of late units of work stops here
MaxLate == 2

\* mutant: the flag is read again when the sleep has ended
MutCheckAfterSleep(l) ==
    /\ loops.pc[l] = "sleeping"
    /\ loops' = [loops EXCEPT !.pc[l] = IF running THEN "working" ELSE "returned"]
    /\ Commit(Ctx(devices, states), [Op("sleep_ends") EXCEPT !.handler = l])
    /\ UNCHANGED <<blink, blink_cameras, blink_sync_modules, discovery_complete, running,
                   cmd, listed, nchanges, ncommands, callVars, cycle, mq, intervals, svc>>

\* asyncio.sleep(...) of a loop returns: the unit of work is started at once,
\* self.running is not read again before it
sleep_ends(l) ==
    /\ loops.pc[l] = "sleeping"
    /\ loops' = [loops EXCEPT !.pc[l] = "working",
                              !.late[l] = IF running \/ @ >= MaxLate THEN @ ELSE @ + 1]
    /\ Commit(Ctx(devices, states), [Op("sleep_ends") EXCEPT !.handler = l])
    /\ UNCHANGED <<blink, blink_cameras, blink_sync_modules, discovery_complete, running,
                   cmd, listed, nchanges, ncommands, callVars, cycle, mq,
                   intervals, svc>>

\* mutant: the loop goes back to sleep without reading self.running
MutLoopForever(l, image) ==
    /\ loops.pc[l] = "working"
    /\ loops' = [loops EXCEPT !.pc[l] = "sleeping"]
    /\ Commit(Ctx(devices, states), [Op("unit_of_work") EXCEPT !.handler = l])
    /\ UNCHANGED <<blink, blink_cameras, blink_sync_modules, discovery_complete, running,
                   cmd, listed, nchanges, ncommands, callVars, cycle, mq,
                   intervals, svc>>

\* the unit of work of a loop comes to its end: by raising, which ends the
\* task, or by returning, after which the while condition is evaluated
unit_of_work(l, image) ==
    /\ loops.pc[l] = "working"
    /\ LET listing == l \in {"device_list_loop", "device_loop"}
           cams == IF listing THEN get_cameras(blink, blink_cameras) ELSE blink_cameras
           syncs == IF listing THEN get_sync_modules(blink, blink_sync_modules)
                    ELSE blink_sync_modules
           poll == CASE l = "device_list_loop" ->
                            DeviceListPoll(devices, states, cams, syncs, blink)
                     [] l = "device_loop" -> AttributePoll(devices, states, cams, syncs, blink)
                     [] l = "collect_snapshots_loop" ->
                            SnapshotPoll(devices, states, image, blink_cameras, blink)
                     [] OTHER -> Ctx(devices, states)
       IN  /\ blink_cameras' = cams
           /\ blink_sync_modules' = syncs
           /\ \E c \in {poll} :
                  /\ Commit(c, [Op("unit_of_work") EXCEPT !.handler = l])
                  /\ loops' = [loops EXCEPT
                                 !.pc[l] = IF c.err # "none" THEN "raised"
                                           ELSE IF running THEN "sleeping" ELSE "returned"]
    /\ listed' = IF l = "device_list_loop" THEN blink.online ELSE listed
    /\ UNCHANGED <<blink, discovery_complete, running, cmd, nchanges, ncommands,
                   callVars, cycle, mq,
                   intervals, svc>>

\* SIGTERM or SIGINT: the flag is cleared and the force-exit timer is started
_handle_signal ==
    /\ loops.main = "gathering" /\ ~loops.timer
    /\ running' = FALSE
    /\ loops' = [loops EXCEPT !.timer = TRUE]
    /\ Commit(Ctx(devices, states), Op("_handle_signal"))
    /\ UNCHANGED <<blink, blink_cameras, blink_sync_modules, discovery_complete,
                   cmd, listed, nchanges, ncommands, callVars, cycle, mq,
                   intervals, svc>>

\* mutant: the timer thread is only waited for once main_loop has returned
MutExitAfterMain ==
    /\ loops.timer /\ loops.main = "returned"
    /\ loops' = [loops EXCEPT !.main = "exited"]
    /\ Commit(Ctx(devices, states), Op("_force_exit"))
    /\ UNCHANGED <<blink, blink_cameras, blink_sync_modules, discovery_complete, running,
                   cmd, listed, nchanges, ncommands, callVars, cycle, mq, intervals, svc>>

\* the timer fires five seconds after the signal: os._exit(0)
_force_exit ==
    /\ loops.timer /\ loops.main # "exited"
    /\ loops' = [loops EXCEPT !.main = "exited",
                              !.pc = [l \in Loops |-> IF @[l] \in {"sleeping", "working"}
                                                      THEN "killed" ELSE @[l]]]
    /\ Commit(Ctx(devices, states), Op("_force_exit"))
    /\ UNCHANGED <<blink, blink_cameras, blink_sync_modules, discovery_complete, running,
                   cmd, listed, nchanges, ncommands, callVars, cycle, mq,
                   intervals, svc>>

\* asyncio.gather(*tasks) comes back into main_loop: with the exception of the
\* first task that raised, which clears self.running, or with the results
\* once every task has returned
main_loop_returns ==
    /\ loops.main = "gathering"
    /\ LET raised == \E l \in Loops : loops.pc[l] = "raised"
       IN  /\ raised \/ \A l \in Loops : loops.pc[l] \in {"returned", "cancelled"}
           /\ running' = (running /\ ~raised)
    /\ loops' = [loops EXCEPT !.main = "returned"]
    /\ Commit(Ctx(devices, states), Op("main_loop_returns"))
    /\ UNCHANGED <<blink, blink_cameras, blink_sync_modules, discovery_complete,
                   cmd, listed, nchanges, ncommands, callVars, cycle, mq,
                   intervals, svc>>

\* asyncio.run cancels the tasks that are left once main_loop has returned:
\* CancelledError is raised at the task's await and the loop breaks
cancelled(l) ==
    /\ loops.main = "returned" /\ loops.pc[l] \in {"sleeping", "working"}
    /\ loops' = [loops EXCEPT !.pc[l] = "cancelled"]
    /\ Commit(Ctx(devices, states), [Op("cancelled") EXCEPT !.handler = l])
    /\ UNCHANGED <<blink, blink_cameras, blink_sync_modules, discovery_complete, running,
                   cmd, listed, nchanges, ncommands, callVars, cycle, mq,
                   intervals, svc>>

NextLoops ==
    \/ \E l \in Loops : sleep_ends(l)
    \/ \E l \in Loops, image \in Images : unit_of_work(l, image)
    \/ _handle_signal
    \/ _force_exit
    \/ main_loop_returns
    \/ \E l \in Loops : cancelled(l)

SpecLoops == InitCycle /\ [][NextLoops]_vars

\* what enables unit_of_work, without the poll it runs: a unit of work is in
\* flight.  No step of NextLoops is a step of this action; it only gives the
\* fairness condition an enabling condition that does not evaluate a poll.
in_flight ==
    /\ \E l \in Loops : loops.pc[l] = "working" /\ loops' = [loops EXCEPT !.pc[l] = "ended"]
    /\ UNCHANGED <<devices, states, sysVars, callVars, cycle, mq,
                   intervals, svc>>

\* the event loop keeps running: as long as a sleep or a unit of work can come
\* to its end, main_loop can come back from its gather, or asyncio.run can
\* cancel a task that is left, one of them does
FairLoops ==
    /\ SpecLoops
    /\ WF_vars(\/ in_flight
               \/ \E l \in Loops : sleep_ends(l)
               \/ main_loop_returns
               \/ \E l \in Loops : cancelled(l)
               \/ \E l \in Loops, image \in Images : unit_of_work(l, image))

\* the force-exit timer runs on a thread of its own (threading.Timer): once
\* started it fires whatever the event loop and its tasks are doing.  Nothing
\* is assumed about the loops: a sleep or a unit of work may last for ever.
FairExit ==
    /\ SpecLoops
    /\ WF_vars(_force_exit)

-----------------------------------------------------------------------------
(* The publish functions called directly on a device of the store, as the
   builders and the polls call them, and the service command handler called
   directly with an attribute and a decoded payload. *)

PublishDevices == {"S1", "C1"}

\* the store as one device-list poll leaves it for a hub and a camera, armed or
\* not; for the devices of `same` the component names its state topic as its
\* availability topic, the case publish_device_availability provides for
InitPublish ==
    /\ \E arm \in [PublishDevices -> BOOLEAN], same \in SUBSET PublishDevices :
          LET bl == [online |-> PublishDevices,
                     armed |-> [d \in Serials |-> d \in PublishDevices /\ arm[d]]]
          IN  /\ blink = bl
              /\ blink_cameras = get_cameras(bl, <<>>)
              /\ blink_sync_modules = get_sync_modules(bl, <<>>)
              /\ \E c \in {DeviceListPoll(<<>>, <<>>, get_cameras(bl, <<>>),
                                          get_sync_modules(bl, <<>>), bl)} :
                    /\ states = c.st
                    /\ devices = [d \in DOMAIN c.dv |->
                          IF d \notin same THEN c.dv[d]
                          ELSE Map(SetKey(c.dv[d].m, "component",
                                     Map(SetKey(get_component(c.dv, d).m, "avty_t",
                                                Scal(get_device_state_topic(c.dv, d, ""))))))]
    /\ discovery_complete = TRUE
    /\ running = TRUE
    /\ cmd = Idle
    /\ pubs = <<>>
    /\ last = Op("none")
    /\ err = "none"
    /\ announced = PublishDevices
    /\ listed = PublishDevices
    /\ nchanges = 0
    /\ ncommands = 0
    /\ call = NoCall
    /\ prevCall = NoCall
    /\ ncalls = 0
    /\ cycle = NoCycle
    /\ mq = NoMessage
    /\ loops = StartedLoops
    /\ intervals = ConfiguredIntervals
    /\ svc = StartedService

\* publish_device_availability(device_id, online)
device_availability_published(d, online) ==
    /\ Commit(publish_device_availability(Ctx(devices, states), d, online),
              [Op("publish_device_availability") EXCEPT
                  !.dev = d, !.message = IF online THEN "online" ELSE "offline"])
    /\ UNCHANGED <<blink, blink_cameras, blink_sync_modules, discovery_complete, running,
                   cmd, listed, nchanges, ncommands, callVars, extVars>>

\* publish_device_state(device_id)
device_state_published(d) ==
    /\ Commit(publish_device_state(Ctx(devices, states), d),
              [Op("publish_device_state") EXCEPT !.dev = d])
    /\ UNCHANGED <<blink, blink_cameras, blink_sync_modules, discovery_complete, running,
                   cmd, listed, nchanges, ncommands, callVars, extVars>>

\* the attributes and the decoded payloads of the service commands received
ServiceHandlers ==
    {"refresh_interval", "rescan_interval", "snapshot_interval", "snapshot_update_interval",
     "refresh_device_list"}
ServiceMessages == {Scal("15"), Scal("60"), Scal("soon"), None}

\* the value of one decimal digit, -1 for any other character
Digit(ch) ==
    CASE ch = "0" -> 0 [] ch = "1" -> 1 [] ch = "2" -> 2 [] ch = "3" -> 3 [] ch = "4" -> 4
      [] ch = "5" -> 5 [] ch = "6" -> 6 [] ch = "7" -> 7 [] ch = "8" -> 8 [] ch = "9" -> 9
      [] OTHER -> -1

\* int(message): an int or a string of decimal digits gives its number; other
\* text raises ValueError, None and containers raise TypeError
PyInt(message) ==
    LET RECURSIVE Value(_, _)
        Value(i, acc) ==
            IF i > Len(message.s) THEN [v |-> acc, err |-> "none"]
            ELSE IF Digit(SubSeq(message.s, i, i)) < 0 THEN [v |-> 0, err |-> "ValueError"]
            ELSE Value(i + 1, 10 * acc + Digit(SubSeq(message.s, i, i)))
    IN  IF message.t # "s" \/ message = None THEN [v |-> 0, err |-> "TypeError"]
        ELSE IF message.s = "" THEN [v |-> 0, err |-> "ValueError"]
        ELSE Value(1, 0)

\* mutant: the interval is set and nothing is published
MutCommandNoPublish(handler, message) ==
    /\ handler = "refresh_interval" /\ PyInt(message).err = "none"
    /\ intervals' = [intervals EXCEPT !.device_interval = PyInt(message).v]
    /\ Commit(Ctx(devices, states),
              [Op("handle_service_command") EXCEPT !.handler = handler, !.message = message.s])
    /\ UNCHANGED <<blink, blink_cameras, blink_sync_modules, discovery_complete, running,
                   cmd, listed, nchanges, ncommands, callVars, cycle, mq, loops, svc>>

\* handle_service_command(handler, message)
handle_service_command(handler, message) ==
    /\ \E n \in {PyInt(message)} :
          LET attribute == CASE handler = "refresh_interval" -> "device_interval"
                             [] handler = "rescan_interval" -> "device_list_interval"
                             [] handler = "snapshot_interval" -> "snapshot_update_interval"
                             [] OTHER -> ""
              op == [Op("handle_service_command") EXCEPT
                        !.handler = handler,
                        !.message = IF message.t = "s" THEN message.s ELSE ""]
          IN  IF attribute = ""
              THEN intervals' = intervals /\ Commit(Ctx(devices, states), op)
              ELSE IF n.err # "none"
              THEN intervals' = intervals /\ Commit(Raise(Ctx(devices, states), n.err), op)
              ELSE /\ intervals' = [intervals EXCEPT ![attribute] = n.v]
                   /\ Commit(publish_service_state(Ctx(devices, states)), op)
    /\ UNCHANGED <<blink, blink_cameras, blink_sync_modules, discovery_complete, running,
                   cmd, listed, nchanges, ncommands, callVars, cycle, mq, loops, svc>>

NextPublish ==
    \/ \E d \in PublishDevices, online \in BOOLEAN : device_availability_published(d, online)
    \/ \E d \in PublishDevices : device_state_published(d)
    \/ \E handler \in ServiceHandlers, message \in ServiceMessages :
          handle_service_command(handler, message)

SpecPublish == InitPublish /\ [][NextPublish]_vars

-----------------------------------------------------------------------------
(* The life of the service object: `async with Blink2Mqtt(...) as b: await
   b.main_loop()` (app.py:33-34), from the entry of the context to its exit,
   and the broker client's disconnect callback.  What the loop tasks do
   between the start of the loops and the return of main_loop is the subject
   of the loop specifications and is left out here. *)

MaxClients == 3

\* mqttc_create: a client is made for the current client id and connects; when
\* the connect fails self.running is cleared and SystemExit is raised
mqttc_create(s, ok) ==
    [s EXCEPT !.mqttc = @ + 1, !.connected = ok,
              !.log = @ \o <<"mqttc_create">> \o (IF ok THEN <<>> ELSE <<"running=False">>)]

\* Base.__aenter__: the client is created, then self.running is set; SystemExit
\* from mqttc_create leaves the `async with` without running its body or
\* __aexit__
__aenter__(ok) ==
    /\ svc.pc = "constructed"
    /\ svc' = [mqttc_create(svc, ok) EXCEPT
                  !.pc = IF ok THEN "entered" ELSE "exited",
                  !.log = IF ok THEN @ \o <<"running=True">> ELSE @]
    /\ running' = ok
    /\ Commit(Ctx(devices, states), Op("__aenter__"))
    /\ UNCHANGED <<blink, blink_cameras, blink_sync_modules, discovery_complete,
                   cmd, listed, nchanges, ncommands, callVars, cycle, mq, loops, intervals>>

\* main_loop: `await self.connect()` comes back, with a session opened or with
\* SystemExit (no credentials, credentials refused); or SIGINT, whose handler
\* is not installed yet, raises KeyboardInterrupt before the call is made
main_loop_connect(outcome) ==
    /\ svc.pc = "entered"
    /\ svc' = IF outcome = "KeyboardInterrupt" THEN [svc EXCEPT !.pc = "raised"]
              ELSE [svc EXCEPT !.pc = IF outcome = "none" THEN "connected" ELSE "raised",
                               !.session = "open",
                               !.log = @ \o <<"connect">>]
    /\ Commit(Raise(Ctx(devices, states), outcome),
              [Op("main_loop") EXCEPT !.handler = "connect"])
    /\ UNCHANGED <<blink, blink_cameras, blink_sync_modules, discovery_complete, running,
                   cmd, listed, nchanges, ncommands, callVars, cycle, mq, loops, intervals>>

\* main_loop: `await self.refresh_device_list()` comes back or raises
main_loop_refresh_device_list ==
    /\ svc.pc = "connected"
    /\ \E c \in {DeviceListPoll(devices, states, get_cameras(blink, blink_cameras),
                                get_sync_modules(blink, blink_sync_modules), blink)} :
          /\ Commit(c, [Op("main_loop") EXCEPT !.handler = "refresh_device_list"])
          /\ discovery_complete' = (discovery_complete \/ c.err = "none")
          /\ svc' = [svc EXCEPT !.pc = IF c.err = "none" THEN "listed" ELSE "raised",
                                !.log = @ \o <<"refresh_device_list">>]
    /\ blink_cameras' = get_cameras(blink, blink_cameras)
    /\ blink_sync_modules' = get_sync_modules(blink, blink_sync_modules)
    /\ listed' = blink.online
    /\ UNCHANGED <<blink, running, cmd, nchanges, ncommands, callVars, cycle, mq, loops,
                   intervals>>

\* main_loop: `await self.refresh_snapshot_all_devices()` comes back or raises
main_loop_refresh_snapshot(image) ==
    /\ svc.pc = "listed"
    /\ \E c \in {SnapshotPoll(devices, states, image, blink_cameras, blink)} :
          /\ Commit(c, [Op("main_loop") EXCEPT !.handler = "refresh_snapshot_all_devices"])
          /\ svc' = [svc EXCEPT !.pc = IF c.err = "none" THEN "snapshotted" ELSE "raised",
                                !.log = @ \o <<"refresh_snapshot_all_devices">>]
    /\ UNCHANGED <<blink, blink_cameras, blink_sync_modules, discovery_complete, running,
                   cmd, listed, nchanges, ncommands, callVars, cycle, mq, loops, intervals>>

\* mutant: the loop tasks are created while the first snapshot refresh is awaited
MutStartBeforeSnapshots ==
    /\ svc.pc = "listed"
    /\ running' = TRUE
    /\ svc' = [svc EXCEPT !.ready = TRUE, !.tasks = TRUE,
                          !.log = @ \o <<"mark_ready", "create_task">>]
    /\ Commit(Ctx(devices, states), [Op("main_loop") EXCEPT !.handler = "create_task"])
    /\ UNCHANGED <<blink, blink_cameras, blink_sync_modules, discovery_complete,
                   cmd, listed, nchanges, ncommands, callVars, cycle, mq, loops, intervals>>

\* main_loop after the three initial calls: the signal handlers are installed,
\* self.running is set, the ready file is touched and the four tasks are created
main_loop_starts_loops ==
    /\ svc.pc = "snapshotted"
    /\ running' = TRUE
    /\ svc' = [svc EXCEPT !.pc = "looping", !.ready = TRUE, !.tasks = TRUE,
                          !.log = @ \o <<"mark_ready", "create_task">>]
    /\ Commit(Ctx(devices, states), [Op("main_loop") EXCEPT !.handler = "create_task"])
    /\ UNCHANGED <<blink, blink_cameras, blink_sync_modules, discovery_complete,
                   cmd, listed, nchanges, ncommands, callVars, cycle, mq, loops, intervals>>

\* a termination signal arrives while the loops run
service_signalled ==
    /\ svc.pc = "looping"
    /\ _handle_signal
    /\ svc' = svc

\* the gather of main_loop comes back and main_loop returns
main_loop_gathered ==
    /\ svc.pc = "looping"
    /\ svc' = [svc EXCEPT !.pc = "returned"]
    /\ Commit(Ctx(devices, states), [Op("main_loop") EXCEPT !.handler = "gather"])
    /\ UNCHANGED <<blink, blink_cameras, blink_sync_modules, discovery_complete, running,
                   cmd, listed, nchanges, ncommands, callVars, cycle, mq, loops, intervals>>

\* mutant: the client is disconnected before the offline message is published
MutDisconnectFirst ==
    /\ svc.pc \in {"returned", "raised"}
    /\ running' = FALSE
    /\ svc' = [svc EXCEPT
                  !.pc = "exited",
                  !.session = IF @ = "open" THEN "closed" ELSE @,
                  !.connected = FALSE,
                  !.log = @ \o <<"running=False">>
                            \o (IF svc.connected THEN <<"disconnect">> ELSE <<>>)
                            \o <<"offline", "loop_stop">>]
    /\ Commit(Send(Ctx(devices, states), "service_availability", "service",
                   get_state_topic("service", "status", ""), Scal("offline")),
              Op("__aexit__"))
    /\ UNCHANGED <<blink, blink_cameras, blink_sync_modules, discovery_complete,
                   cmd, listed, nchanges, ncommands, callVars, cycle, mq, loops, intervals>>

\* Base.__aexit__: self.running is cleared, an open session is closed, the
\* service's availability goes out as offline, the client's network loop is
\* stopped and the client, when it is connected, is disconnected
__aexit__ ==
    /\ svc.pc \in {"returned", "raised"}
    /\ running' = FALSE
    /\ svc' = [svc EXCEPT
                  !.pc = "exited",
                  !.session = IF @ = "open" THEN "closed" ELSE @,
                  !.connected = FALSE,
                  !.log = @ \o <<"running=False", "offline", "loop_stop">>
                            \o (IF svc.connected THEN <<"disconnect">> ELSE <<>>)]
    /\ Commit(Send(Ctx(devices, states), "service_availability", "service",
                   get_state_topic("service", "status", ""), Scal("offline")),
              Op("__aexit__"))
    /\ UNCHANGED <<blink, blink_cameras, blink_sync_modules, discovery_complete,
                   cmd, listed, nchanges, ncommands, callVars, cycle, mq, loops, intervals>>

\* mutant: a lost connection is always answered with a new client
MutAlwaysReconnect(late, ok) ==
    /\ svc.connected /\ svc.pc # "exited" /\ svc.mqttc < MaxClients
    /\ svc' = mqttc_create([svc EXCEPT !.client_id = @ + 1], ok)
    /\ running' = (running /\ ok)
    /\ Commit(IF ok THEN Ctx(devices, states) ELSE Raise(Ctx(devices, states), "SystemExit"),
              [Op("mqtt_on_disconnect") EXCEPT !.message = "reconnect"])
    /\ UNCHANGED <<blink, blink_cameras, blink_sync_modules, discovery_complete,
                   cmd, listed, nchanges, ncommands, callVars, cycle, mq, loops, intervals>>

\* mqtt_on_disconnect, called on the client's thread when the connection is
\* lost; `late` says that more than ten seconds have gone by since
\* mqtt_connect_time
mqtt_on_disconnect(late, ok) ==
    /\ svc.connected /\ svc.pc # "exited" /\ svc.mqttc < MaxClients
    /\ IF running /\ late
       THEN /\ svc' = mqttc_create([svc EXCEPT !.client_id = @ + 1], ok)
            /\ running' = ok
            /\ Commit(IF ok THEN Ctx(devices, states)
                      ELSE Raise(Ctx(devices, states), "SystemExit"),
                      [Op("mqtt_on_disconnect") EXCEPT !.message = "reconnect"])
       ELSE /\ svc' = [svc EXCEPT !.connected = FALSE, !.log = @ \o <<"running=False">>]
            /\ running' = FALSE
            /\ Commit(Ctx(devices, states),
                      [Op("mqtt_on_disconnect") EXCEPT !.message = "stop"])
    /\ UNCHANGED <<blink, blink_cameras, blink_sync_modules, discovery_complete,
                   cmd, listed, nchanges, ncommands, callVars, cycle, mq, loops, intervals>>

InitService ==
    /\ devices = <<>>
    /\ states = <<>>
    /\ \E on \in SUBSET Cameras : blink = [NoBlink EXCEPT !.online = SyncModules \cup on]
    /\ blink_cameras = <<>>
    /\ blink_sync_modules = <<>>
    /\ discovery_complete = FALSE
    /\ running = FALSE
    /\ cmd = Idle
    /\ pubs = <<>>
    /\ last = Op("none")
    /\ err = "none"
    /\ announced = {}
    /\ listed = {}
    /\ nchanges = 0
    /\ ncommands = 0
    /\ call = NoCall
    /\ prevCall = NoCall
    /\ ncalls = 0
    /\ cycle = NoCycle
    /\ mq = NoMessage
    /\ loops = StartedLoops
    /\ intervals = ConfiguredIntervals
    /\ svc = Constructed

NextService ==
    \/ \E ok \in BOOLEAN : __aenter__(ok)
    \/ \E outcome \in {"none", "SystemExit", "KeyboardInterrupt"} : main_loop_connect(outcome)
    \/ main_loop_refresh_device_list
    \/ \E image \in Images : main_loop_refresh_snapshot(image)
    \/ main_loop_starts_loops
    \/ service_signalled
    \/ main_loop_gathered
    \/ __aexit__
    \/ \E late \in BOOLEAN, ok \in BOOLEAN : mqtt_on_disconnect(late, ok)

SpecService == InitService /\ [][NextService]_vars

(* Claims about the upserts *)

CallOK(c) == c.op # "none" /\ c.err = "none"
SameCall(c1, c2) == c1.op = c2.op /\ c1.dev = c2.dev /\ c1.kw = c2.kw
TreeChanged(c) ==
    \/ Has(c.pre, c.dev) # Has(c.post, c.dev)
    \/ TreeOf(c.pre, c.dev) # TreeOf(c.post, c.dev)

\* C1: an upsert returns changed = TRUE exactly when the device's stored tree
\* after the call differs from the tree before it, for a device seen for the
\* first time and for a device that already has an entry.
C1_ChangedIffTreeDiffers ==
    CallOK(call) => (call.changed <=> TreeChanged(call))

\* C2: an upsert repeated immediately with the same device and the same partial
\* tree reports changed = FALSE and leaves the store as the first call left it.
C2_Idempotent ==
    (CallOK(prevCall) /\ CallOK(call) /\ SameCall(prevCall, call))
        => (~call.changed /\ call.post = call.pre)

C2_Witness ==
    /\ CallOK(prevCall) /\ CallOK(call) /\ SameCall(prevCall, call)
    /\ TreeChanged(prevCall)
    /\ \E i \in 1..Len(call.kw) : call.kw[i].v.t = "l"

C1_Witness ==
    CallOK(call) /\ Has(call.pre, call.dev) /\ TreeChanged(call)

\* C36: when the data of any section passed to an upsert holds a tuple, as a
\* value or as a key at any depth, the call raises the structural error and the
\* device's stored tree is exactly as before the call, also when another section
\* of the same call was valid.
PassesTuple(c) == \E i \in 1..Len(c.kw) : HasTuple(c.kw[i].v)
C36_TupleRaisesAndKeepsTree ==
    (call.op # "none" /\ PassesTuple(call))
        => /\ call.err = "TypeError"
           /\ Has(call.post, call.dev) = Has(call.pre, call.dev)
           /\ TreeOf(call.post, call.dev) = TreeOf(call.pre, call.dev)

RECURSIVE KeyPaths(_)
\* the key paths of a tree: the sequences of mapping keys that lead to a field
KeyPaths(n) ==
    IF n.t = "m"
    THEN UNION {{<<k>>} \cup {<<k>> \o p : p \in KeyPaths(n.m[k])} : k \in DOMAIN n.m}
    ELSE {}

RECURSIVE Shadows(_, _)
\* the new value meets a stored mapping with something that is not a mapping
Shadows(base, nxt) ==
    /\ base.t = "m"
    /\ \/ nxt.t # "m"
       \/ \E k \in (DOMAIN base.m) \cap (DOMAIN nxt.m) : Shadows(base.m[k], nxt.m[k])
ReplacesMapping(c) ==
    \E i \in 1..Len(c.kw) : Shadows(TreeOf(c.pre, c.dev), OneSection(c.kw[i].sec, c.kw[i].v))

\* C37 as stated: the component tree only grows: every key path of the device's
\* tree before an upsert_device call is a key path of its tree after the call.
C37_ComponentTreeOnlyGrows ==
    call.op = "upsert_device"
        => KeyPaths(TreeOf(call.pre, call.dev)) \subseteq KeyPaths(TreeOf(call.post, call.dev))

\* C37 as amended: every key path of the tree before an upsert_device call is
\* still there after it, unless the call passes something that is not a mapping
\* at a path where the tree holds a mapping.
C37_GrowsUnlessMappingReplaced ==
    (call.op = "upsert_device" /\ ~ReplacesMapping(call))
        => KeyPaths(TreeOf(call.pre, call.dev)) \subseteq KeyPaths(TreeOf(call.post, call.dev))

\* a call on a device that has a tree, which adds a field below an existing mapping
C37_Witness ==
    /\ call.op = "upsert_device" /\ CallOK(call) /\ ~ReplacesMapping(call)
    /\ KeyPaths(TreeOf(call.pre, call.dev)) # {}
    /\ \E p \in KeyPaths(TreeOf(call.post, call.dev)) :
          Len(p) = 2 /\ p \notin KeyPaths(TreeOf(call.pre, call.dev))

\* two single-section calls whose key paths are disjoint: different sections, or
\* the same section with dicts over disjoint entity names
IsSingle(c) == Len(c.kw) = 1
DisjointSections(x, y) == x.sec # y.sec
DisjointNested(x, y) ==
    /\ x.sec = y.sec /\ x.v.t = "m" /\ y.v.t = "m"
    /\ (DOMAIN x.v.m) \cap (DOMAIN y.v.m) = {}
\* the one call that passes both partial trees together
Combined(x, y) ==
    IF DisjointSections(x, y) THEN <<x, y>>
    ELSE <<Item(x.sec, Map([k \in (DOMAIN x.v.m) \cup (DOMAIN y.v.m) |->
                               IF k \in DOMAIN x.v.m THEN x.v.m[k] ELSE y.v.m[k]]))>>
DisjointPair ==
    /\ CallOK(prevCall) /\ CallOK(call)
    /\ prevCall.op = call.op /\ prevCall.dev = call.dev
    /\ IsSingle(prevCall) /\ IsSingle(call)
    /\ (DisjointSections(prevCall.kw[1], call.kw[1]) \/ DisjointNested(prevCall.kw[1], call.kw[1]))

\* C3: upserts on disjoint keys commute and equal the combined upsert: X then Y
\* leaves the tree that Y then X leaves and that the single call with both
\* leaves, also for entities nested under the same section.
C3_DisjointOrderIndependent ==
    DisjointPair =>
        LET d == call.dev
            s0 == prevCall.pre
            x == prevCall.kw
            y == call.kw
        IN  /\ call.post = Upsert(Upsert(s0, d, y).store, d, x).store
            /\ call.post = Upsert(s0, d, Combined(x[1], y[1])).store

C3_Witness ==
    /\ DisjointPair
    /\ DisjointNested(prevCall.kw[1], call.kw[1])
    /\ DOMAIN prevCall.kw[1].v.m # {} /\ DOMAIN call.kw[1].v.m # {}
    /\ Has(prevCall.pre, call.dev)

\* the keyword arguments as one partial tree
KwTree(kw) ==
    Map([sec \in {kw[i].sec : i \in 1..Len(kw)} |->
            kw[CHOOSE i \in 1..Len(kw) : kw[i].sec = sec].v])

RECURSIVE Uniq(_)
\* q without repeated elements, first occurrences kept
Uniq(q) ==
    IF q = <<>> THEN <<>>
    ELSE LET r == Uniq(SubSeq(q, 1, Len(q) - 1))
         IN  IF InSeq(q[Len(q)], r) THEN r ELSE Append(r, q[Len(q)])

RECURSIVE RefClaimed(_, _)
\* the reference merge as claimed: on two sequences the old one followed by the
\* new elements, duplicates removed
RefClaimed(old, new) ==
    IF old.t = "m" /\ new.t = "m"
    THEN Map([k \in (DOMAIN old.m) \cup (DOMAIN new.m) |->
                 IF k \notin DOMAIN new.m THEN old.m[k]
                 ELSE IF k \notin DOMAIN old.m THEN new.m[k]
                 ELSE RefClaimed(old.m[k], new.m[k])])
    ELSE IF old.t = "l" /\ new.t = "l"
    THEN Lst(old.l \o Uniq(SelectSeq(new.l, LAMBDA n : ~InSeq(n, old.l))))
    ELSE new

RECURSIVE RefAmended(_, _)
\* the reference merge as amended: on two sequences the old one followed by every
\* element of the new one that does not occur in the old one, repeats included
RefAmended(old, new) ==
    IF old.t = "m" /\ new.t = "m"
    THEN Map([k \in (DOMAIN old.m) \cup (DOMAIN new.m) |->
                 IF k \notin DOMAIN new.m THEN old.m[k]
                 ELSE IF k \notin DOMAIN old.m THEN new.m[k]
                 ELSE RefAmended(old.m[k], new.m[k])])
    ELSE IF old.t = "l" /\ new.t = "l"
    THEN Lst(old.l \o SelectSeq(new.l, LAMBDA n : \A j \in 1..Len(old.l) : old.l[j] # n))
    ELSE new

\* C4 (as claimed): the upsert result equals the reference structural merge:
\* mappings merge key by key (keys only in the old tree stay), two sequences give
\* the old sequence followed by the new elements with duplicates removed, and any
\* other combination of types gives the new value.
C4_EqualsReferenceMerge ==
    CallOK(call) =>
        TreeOf(call.post, call.dev) = RefClaimed(TreeOf(call.pre, call.dev), KwTree(call.kw))

\* C4 (amended): the same, except that two sequences give the old sequence
\* followed by those elements of the new sequence that do not occur in the old
\* one; elements repeated inside the new sequence stay repeated.
C4_EqualsAmendedMerge ==
    CallOK(call) =>
        TreeOf(call.post, call.dev) = RefAmended(TreeOf(call.pre, call.dev), KwTree(call.kw))

C4_Witness ==
    /\ CallOK(call) /\ call.op = "upsert_state" /\ Has(call.post, call.dev)
    /\ "switch" \in DOMAIN call.post[call.dev].m
    /\ call.post[call.dev].m["switch"] = Lst(<<Scal("72"), Scal("OK"), Scal("OK")>>)
    /\ Has(call.pre, call.dev)
    /\ "sensor" \in DOMAIN call.pre[call.dev].m

-----------------------------------------------------------------------------
(* Claims about the running service *)

\* the State leaf a command handler is about, None when the tree has no such leaf
Leaf(st, d, h) ==
    IF Has(st, d) /\ LeafOf(h)[1] \in DOMAIN st[d].m
       /\ st[d].m[LeafOf(h)[1]].t = "m"
       /\ LeafOf(h)[2] \in DOMAIN st[d].m[LeafOf(h)[1]].m
    THEN st[d].m[LeafOf(h)[1]].m[LeafOf(h)[2]]
    ELSE None

\* the positions in a run of publishes of the messages of one kind for one device
PubsOf(q, k, d) == {i \in 1..Len(q) : q[i].k = k /\ q[i].d = d}
OfflinePubs(q, d) == {i \in PubsOf(q, "availability", d) : q[i].v = Scal("offline")}

\* a state message that carries value v for the motion_detection leaf: on the
\* leaf's own topic, or inside the payload of the section
CarriesLeaf(p, d, v) ==
    \/ p.topic = get_state_topic(d, "switch", "motion_detection") /\ p.v = v
    \/ p.v.t = "m" /\ "motion_detection" \in DOMAIN p.v.m /\ p.v.m["motion_detection"] = v

RECURSIVE Paths(_)
\* the key paths of a tree
Paths(n) ==
    IF n.t = "m"
    THEN {<<>>} \cup UNION {{<<k>> \o p : p \in Paths(n.m[k])} : k \in DOMAIN n.m}
    ELSE {<<>>}

\* C5 (as claimed): publish_device_state for a device whose discovery has never
\* been published (flag absent or false, or a state with no "internal" section
\* at all) publishes nothing, raises no error and leaves the store unchanged.
C5_UndiscoveredPublishesNothing ==
    \A d \in DOMAIN states :
        is_discovered(states, d) # "True" =>
            LET c == publish_device_state(Ctx(devices, states), d)
            IN  c.pubs = <<>> /\ c.err = "none" /\ c.st = states /\ c.dv = devices

\* C6: in every execution, whatever the order of device-list polls, attribute
\* polls, snapshot cycles, commands and rediscovery, no message goes out on a
\* device's state, image or availability topic before a discovery message for
\* that device has gone out: each such message is for a device announced in an
\* earlier step or earlier in the same step.
C6_NoPublishBeforeDiscovery ==
    \A i \in 1..Len(pubs) :
        pubs[i].k \in {"state", "availability", "image"} =>
            \/ pubs[i].d \in announced
            \/ \E j \in 1..(i - 1) : pubs[j].k = "discovery" /\ pubs[j].d = pubs[i].d

C6_Witness ==
    /\ last.op = "refresh_device_list"
    /\ \E i \in 1..Len(pubs) :
          /\ pubs[i].k = "availability" /\ pubs[i].d \notin announced
          /\ \E j \in (i + 1)..Len(pubs) : pubs[j].k = "state" /\ pubs[j].d = pubs[i].d

\* C7 (as claimed): when a device-list poll no longer lists a device that the
\* previous poll listed, the device's availability is published as "offline"
\* exactly once by that poll, not again by further polls in which it is still
\* missing, and the poll leaves its component tree and state tree unchanged.
C7_MissingDeviceMarkedOffline ==
    [][last'.op = "refresh_device_list" =>
          \A d \in DOMAIN devices :
              /\ (d \in listed /\ d \notin listed') =>
                     /\ Cardinality(OfflinePubs(pubs', d)) = 1
                     /\ devices'[d] = devices[d]
                     /\ states'[d] = states[d]
              /\ (d \notin listed /\ d \notin listed') => OfflinePubs(pubs', d) = {}]_vars

C11_ImageChangeDetection ==
    [][\A image \in Images :
          (last'.op = "refresh_snapshot_all_devices" /\ refresh_snapshot_all_devices(image)) =>
              \A d \in (DOMAIN devices) \cap (DOMAIN blink_cameras) \cap blink.online :
                  LET stored == states[d].m["snapshot"]
                      sent == PubsOf(pubs', "image", d)
                  IN  IF image # "" /\ stored # Scal(image)
                      THEN /\ Cardinality(sent) = 1
                           /\ \A i \in sent : pubs'[i].v = Scal(image)
                           /\ states'[d].m["snapshot"] = Scal(image)
                      ELSE sent = {} /\ states'[d] = states[d]]_vars

C11_Witness ==
    /\ last.op = "refresh_snapshot_all_devices"
    /\ "C1" \in (DOMAIN devices) \cap blink.online
    /\ states["C1"].m["snapshot"] = Scal("img1")
    /\ pubs = <<>> /\ err = "none"

-----------------------------------------------------------------------------
(* Claims about the snapshot cycle *)

\* C12: in a snapshot cycle no cached-image fetch begins for any device until
\* the take-snapshot command has completed for every camera of the cycle, the
\* settle delay has elapsed once, and the upstream refresh has been invoked
\* once after the delay.
C12_PhasesDoNotOverlap ==
    LET ev == cycle.events
        Before(i, e) == {j \in 1..(i - 1) : ev[j].e = e}
    IN  \A i \in 1..Len(ev) :
            ev[i].e = "fetch" =>
                /\ \A d \in DOMAIN cycle.take : \E j \in Before(i, "taken") : ev[j].d = d
                /\ Cardinality(Before(i, "settle_delay")) = 1
                /\ \E j \in Before(i, "settle_delay") :
                      Cardinality({k \in Before(i, "blink_refresh") : k > j}) = 1

-----------------------------------------------------------------------------
(* Claims about inbound messages *)

\* C13: topic round trip: for every (deviceId, section, entity) triple, parsing
\* the command topic built for the triple recovers (own service tag, deviceId,
\* entity).
C13_TopicRoundTrip ==
    \A d \in CycleCameras, e \in CommandEntities :
        mq.topic = get_command_topic(d, e[1], e[2]) /\ Truthy(mq.payload) =>
            mq.parsed = <<service_slug, d, e[2]>>

\* C14: a command message whose topic carries a vendor/service tag that is not
\* exactly this bridge's own prefix never results in a device command being
\* dispatched, and is ignored without raising.
C14_ForeignTagIgnored ==
    mq.parsed # <<>> /\ mq.parsed[1] # service_slug => mq.calls = <<>> /\ mq.raised = "none"

\* C15: for every inbound message, whatever its topic and payload, the message
\* handler returns normally: no exception propagates out of it, and a message
\* that is not a well-formed command for a known device (own service tag,
\* known device id, an attribute) causes no device command, hence no shadow
\* mutation and no external API call.
C15_HandlerNeverRaises ==
    /\ mq.raised = "none"
    /\ mq.calls # <<>> =>
          /\ Len(mq.parsed) = 3 /\ mq.parsed[1] = service_slug
          /\ Has(devices, mq.parsed[2]) /\ mq.parsed[3] # ""

-----------------------------------------------------------------------------
(* Claims about the loops *)

\* C17 as stated: in every polling loop, once the running flag is false no new
\* unit of work is started.
C17_NoWorkAfterStop ==
    [][~running => \A l \in Loops : loops'.pc[l] = "working" => loops.pc[l] = "working"]_vars

\* C17 as amended: once the running flag is false a loop starts at most one
\* more unit of work, the one that follows the sleep in progress; the flag
\* does not interrupt a unit in flight, which ends by returning or raising
\* unless the process is force-exited or the task is cancelled after
\* main_loop has returned.
C17_AtMostOneLateUnit ==
    [][\A l \in Loops :
          /\ loops'.late[l] <= 1
          /\ loops.pc[l] = "working" /\ loops'.pc[l] # "working" =>
                \/ loops'.pc[l] \in {"sleeping", "returned", "raised"}
                \/ loops'.main = "exited" \/ loops.main = "returned"]_vars

C17_Witness ==
    /\ ~running /\ loops.main = "gathering"
    /\ loops.pc["device_loop"] = "returned" /\ loops.late["device_loop"] = 1
    /\ loops.pc["heartbeat"] = "working" /\ loops.late["heartbeat"] = 0

\* C18: after the running flag becomes false each loop eventually terminates
\* and main_loop returns, given that every sleep and every unit of work
\* completes (the process is not force-exited first); a loop that is cancelled
\* in its sleep ends without raising.
C18_LoopsTerminate ==
    /\ ~running ~>
          \/ loops.main = "exited"
          \/ /\ loops.main = "returned"
             /\ \A l \in Loops : loops.pc[l] \in {"returned", "raised", "cancelled"}
    /\ [][\A l \in Loops :
             loops.pc[l] = "sleeping" /\ loops'.pc[l] \notin {"sleeping", "working"} =>
                 loops'.pc[l] \in {"cancelled", "killed"}]_vars

C18_Witness ==
    /\ ~running /\ loops.timer /\ loops.main = "returned"
    /\ \A l \in Loops : loops.pc[l] = "returned"

\* C19: an exception raised by one loop's unit of work does not stop that
\* loop's later cycles or any other loop, and the running flag stays true
\* (until a signal clears it); an exception raised for one device of an
\* attribute poll does not keep the other devices from being processed.
C19_FailureIsolated ==
    /\ \A l \in Loops : loops.pc[l] \notin {"raised", "cancelled"}
    /\ running \/ loops.timer
    /\ last.op = "unit_of_work" /\ last.handler = "device_loop" =>
          \A d \in (DOMAIN blink_cameras) \cap blink.online : PubsOf(pubs, "state", d) # {}


\* C32: every iteration of a loop sleeps first and does its unit of work
\* afterwards; the running flag is read only at the top of an iteration, so the
\* unit of work that follows a completed sleep is started even if the flag was
\* cleared during the sleep, and the loop ends at the next reading of the flag.
C32_SleepThenWork ==
    [][\A l \in Loops :
          /\ (last'.op = "sleep_ends" /\ last'.handler = l) =>
                loops.pc[l] = "sleeping" /\ loops'.pc[l] = "working"
          /\ (loops'.pc[l] = "working" /\ loops.pc[l] # "working") =>
                loops.pc[l] = "sleeping"
          /\ (loops'.pc[l] = "sleeping" /\ loops.pc[l] # "sleeping") =>
                running /\ loops.pc[l] = "working"
          /\ (loops'.pc[l] = "returned" /\ loops.pc[l] # "returned") =>
                ~running /\ loops.pc[l] = "working"]_vars

\* a sleep ends after the flag has been cleared and the unit of work starts
C32_Witness ==
    /\ last.op = "sleep_ends" /\ last.handler = "collect_snapshots_loop"
    /\ ~running
    /\ loops.pc["collect_snapshots_loop"] = "working"
    /\ loops.late["collect_snapshots_loop"] = 1

-----------------------------------------------------------------------------
(* Claims about the retries of a command *)

\* C20: whatever the setter answers (success, busy, another failure, an
\* exception), one command calls the setter at most max_retries = 5 times:
\* every further call is the next attempt, the fifth attempt is the last, and
\* when it fails too the command ends reporting failure, without raising and
\* without writing or publishing anything.
C20_BoundedRetry ==
    [][cmd.pc = "awaiting" /\ cmd' # cmd =>
          /\ cmd.attempt \in 1..max_retries
          /\ cmd'.pc = "awaiting" => cmd'.attempt = cmd.attempt + 1 /\ cmd'.attempt <= max_retries
          /\ cmd.attempt = max_retries =>
                /\ cmd' = Idle /\ err' = "none"
                /\ last'.op \in {"command_gave_up", "command_succeeded", "command_failed"}
          /\ last'.op = "command_gave_up" =>
                cmd.attempt = max_retries /\ pubs' = <<>> /\ states' = states]_vars

C20_Witness ==
    /\ last.op = "command_gave_up" /\ last.handler = "motion_detection"
    /\ cmd = Idle /\ err = "none" /\ running


\* C33: when the setter's call comes back, an answer reporting success ends the
\* command at once with success; a busy answer (code 307) leads to the next
\* attempt while attempts are left; any other answer that is not a success ends
\* the command reporting failure; and the state tree changes only in the step
\* that reports success.
C33_SetterResponse ==
    [][\A outcome \in Outcomes :
          setter_returns(outcome) =>
              /\ outcome = "completed" => cmd' = Idle /\ last'.op = "command_succeeded"
              /\ (outcome = "busy" /\ cmd.attempt < max_retries) =>
                    /\ last'.op = "command_retry"
                    /\ cmd' = [cmd EXCEPT !.attempt = cmd.attempt + 1]
              /\ outcome = "rejected" => cmd' = Idle /\ last'.op = "command_failed"
              /\ outcome # "completed" => states' = states /\ pubs' = <<>>]_vars

\* the setter has answered busy twice and the third attempt is under way, the
\* leaf still holding the value it had
C33_Witness ==
    /\ last.op = "command_retry" /\ last.handler = "motion_detection" /\ last.message = "ON"
    /\ cmd.pc = "awaiting" /\ cmd.attempt = 3
    /\ Leaf(states, last.dev, "motion_detection") = Scal("OFF")

-----------------------------------------------------------------------------
(* Claims about what the broker holds for a device *)

\* what publish_device_state sends for a device from the given stores; nothing
\* when it holds off or raises before its first message
StateDoc(dv, st, d) == publish_device_state(Ctx(dv, st), d).pubs

\* C21: in every step of every interleaving of polls, snapshot refreshes and
\* commands, each state message of a device goes to one of its state topics,
\* the last message the step sends on a topic carries the value the shadow
\* holds after the step, and a topic the step does not publish on keeps the
\* value its last message carried; so whenever the handlers are idle the last
\* value published on each state topic is the shadow's.
C21_NoStaleOverwrite ==
    [][\A d \in Serials :
          \A doc \in {StateDoc(devices', states', d)}, old \in {StateDoc(devices, states, d)},
             sent \in {SelectSeq(pubs', LAMBDA p : p.k = "state" /\ p.d = d)} :
              /\ old # <<>> => doc # <<>>
              /\ \A j \in 1..Len(sent) : \E i \in 1..Len(doc) : doc[i].topic = sent[j].topic
              /\ \A i \in 1..Len(doc) :
                    LET on == {j \in 1..Len(sent) : sent[j].topic = doc[i].topic}
                    IN  IF on # {}
                        THEN sent[CHOOSE k \in on : \A m \in on : m <= k].v = doc[i].v
                        ELSE \/ old = <<>>
                             \/ \E k \in 1..Len(old) :
                                   old[k].topic = doc[i].topic /\ old[k].v = doc[i].v]_vars

\* a command has turned motion detection on after a poll had published it as off
C21_Witness ==
    /\ last.op = "command_succeeded" /\ last.handler = "motion_detection"
    /\ last.message = "ON" /\ last.dev \in DOMAIN blink_cameras
    /\ ~blink_cameras[last.dev].motion_detection
    /\ \E j \in PubsOf(pubs, "state", last.dev) :
          pubs[j].topic = get_state_topic(last.dev, "switch", "motion_detection")
          /\ pubs[j].v = Scal("ON")

\* C22: rediscover_all publishes the service's discovery and state and then,
\* for every device of the store, the device's discovery followed by its
\* state: no device is skipped and each discovery message precedes every state
\* message of the same device.
C22_DiscoveryThenState ==
    last.op = "rediscover_all" =>
        /\ PubsOf(pubs, "service_discovery", "service") # {}
        /\ PubsOf(pubs, "service_state", "service") # {}
        /\ \A d \in DOMAIN devices :
              /\ PubsOf(pubs, "discovery", d) # {}
              /\ PubsOf(pubs, "state", d) # {}
              /\ \A i \in PubsOf(pubs, "service_discovery", "service")
                          \cup PubsOf(pubs, "service_state", "service"),
                    j \in PubsOf(pubs, "discovery", d) \cup PubsOf(pubs, "state", d) : i < j
              /\ \A i \in PubsOf(pubs, "discovery", d), j \in PubsOf(pubs, "state", d) : i < j

-----------------------------------------------------------------------------
(* Claims about the peer's status topic and the subscriptions *)

\* C23: a message "online" on homeassistant/status makes rediscover_all run, so
\* that the discovery and the state of the service and of every known device
\* are published again; any other payload on that topic publishes nothing.
C23_OnlineRediscovers ==
    last.op = "mqtt_on_message" /\ mq.topic = "homeassistant/status" /\ mq.raised = "none" =>
        pubs = IF mq.payload = Scal("online") THEN RediscoverAll(devices, states).pubs
               ELSE <<>>

\* C24: after an accepted connect the bridge is subscribed to exactly four
\* filters: homeassistant/status, P/service/+/set, P/service/+/command and
\* P/+/switch/+/set, P being its own prefix.
C24_FourFilters ==
    last.op = "mqtt_on_connect" /\ last.message = "accepted" =>
        mq.subs = {"homeassistant/status",
                   service_slug \o "/service/+/set",
                   service_slug \o "/service/+/command",
                   service_slug \o "/+/switch/+/set"}

-----------------------------------------------------------------------------
(* Claims about the discovery, availability and state publishes *)

\* C25: publishing the discovery of a device whose discovery flag is already
\* set and whose component tree is unchanged sends nothing to the broker; for
\* a device not yet discovered it sends the discovery document and sets the flag.
C25_DiscoveryIdempotent ==
    [][\A d \in Serials :
          /\ is_discovered(states, d) = "True" /\ Has(devices, d) /\ Has(devices', d)
             /\ devices'[d] = devices[d]
                => PubsOf(pubs', "discovery", d) = {}
          /\ PubsOf(pubs', "discovery", d) # {} => is_discovered(states', d) = "True"]_vars

-----------------------------------------------------------------------------
(* Claims about the availability publish *)

\* C26: publish_device_availability publishes nothing when the device's state topic
\* and its availability topic are the same string; when they differ it publishes
\* "online" or "offline", as the flag says, on the availability topic and nowhere else.
C26_AvailabilityUnlessSameTopic ==
    last.op = "publish_device_availability" =>
        \A stat \in {get_device_state_topic(devices, last.dev, "")},
           avty \in {get_device_availability_topic(devices, last.dev)} :
            /\ err = "none"
            /\ pubs = IF stat = avty THEN <<>>
                      ELSE <<Pub("availability", last.dev, avty, Scal(last.message))>>

C26_Witness ==
    /\ last.op = "publish_device_availability"
    /\ last.message = "offline"
    /\ get_device_state_topic(devices, last.dev, "") = get_device_availability_topic(devices, last.dev)
    /\ pubs = <<>>

\* C27: when an attribute poll returns, for a device, the values its shadow already
\* holds (the upsert reports no change), no state message is published for that
\* device in that cycle.
C27_NoDuplicateStatePublish ==
    [][last'.op = "refresh_all_devices" =>
          \A d \in DOMAIN states \cap DOMAIN states' :
              states'[d] = states[d] =>
                  SelectSeq(pubs', LAMBDA p : p.k = "state" /\ p.d = d) = <<>>]_vars

\* the document carries, under cmps, an entity of that name and platform
HasEntity(doc, d, name, platform) ==
    /\ doc.t = "m"
    /\ "cmps" \in DOMAIN doc.m
    /\ doc.m["cmps"].t = "m"
    /\ \E k \in DOMAIN doc.m["cmps"].m \cap {name, d \o "_" \o name} :
          \E p \in DOMAIN doc.m["cmps"].m[k].m \cap {"p", "platform"} :
              doc.m["cmps"].m[k].m[p] = Scal(platform)

\* C28: a device-list poll that returns the hub S1 with arm_mode false and
\* local_storage true publishes a discovery document for S1 that contains an
\* entity armed of platform switch and an entity local_storage of platform sensor,
\* and leaves the state switch.armed = "OFF" and sensor.local_storage = true.
C28_HubDiscoveryAndState ==
    (last.op = "refresh_device_list" /\ err = "none" /\ "S1" \in blink.online
         /\ ~blink.armed["S1"]) =>
        /\ states["S1"].m["switch"].m["armed"] = Scal("OFF")
        /\ states["S1"].m["sensor"].m["local_storage"] = PyBool(TRUE)
        /\ \E i \in DOMAIN pubs :
              /\ pubs[i].k = "discovery"
              /\ pubs[i].d = "S1"
              /\ HasEntity(pubs[i].v, "S1", "armed", "switch")
              /\ HasEntity(pubs[i].v, "S1", "local_storage", "sensor")

-----------------------------------------------------------------------------
(* Claims about the service commands *)

\* C29: handle_service_command with an attribute that names one of the three
\* intervals sets that interval to the integer payload, leaves the other two
\* intervals and every device's shadow as they were, and then publishes the service
\* state; with an unrecognized attribute it changes nothing and publishes nothing.
C29_ServiceCommandFrame ==
    [][last'.op = "handle_service_command" =>
          \A n \in {PyInt(Scal(last'.message))} :
              /\ devices' = devices /\ states' = states
              /\ last'.handler \notin {"refresh_interval", "rescan_interval", "snapshot_interval"} =>
                    intervals' = intervals /\ pubs' = <<>> /\ err' = "none"
              /\ (last'.handler = "refresh_interval" /\ n.err = "none") =>
                    /\ intervals'.device_interval = n.v
                    /\ intervals'.device_list_interval = intervals.device_list_interval
                    /\ intervals'.snapshot_update_interval = intervals.snapshot_update_interval
              /\ (last'.handler = "rescan_interval" /\ n.err = "none") =>
                    /\ intervals'.device_list_interval = n.v
                    /\ intervals'.device_interval = intervals.device_interval
                    /\ intervals'.snapshot_update_interval = intervals.snapshot_update_interval
              /\ (last'.handler = "snapshot_interval" /\ n.err = "none") =>
                    /\ intervals'.snapshot_update_interval = n.v
                    /\ intervals'.device_interval = intervals.device_interval
                    /\ intervals'.device_list_interval = intervals.device_list_interval
              /\ (last'.handler \in {"refresh_interval", "rescan_interval", "snapshot_interval"}
                      /\ n.err = "none") =>
                    /\ err' = "none"
                    /\ Len(pubs') = 1
                    /\ pubs'[1].k = "service_state"]_vars

C29_Witness ==
    /\ last.op = "handle_service_command"
    /\ last.handler = "rescan_interval" /\ last.message = "60"
    /\ intervals = [device_interval |-> 15, device_list_interval |-> 60,
                    snapshot_update_interval |-> 5]
    /\ Len(pubs) = 1 /\ pubs[1].topic = "blink2mqtt/service/service"
    /\ "S1" \in DOMAIN states /\ "C1" \in DOMAIN states

-----------------------------------------------------------------------------
(* Claims about the termination signal *)

\* C30: a termination signal clears the running flag and starts the force-exit
\* timer, and from then on the flag stays false and the process exits when the
\* timer fires, whether or not every loop's unit of work comes to an end.
C30_SignalForcesExit ==
    /\ [][last'.op = "_handle_signal" => ~running' /\ loops'.timer]_vars
    /\ [](loops.timer => ~running)
    /\ (loops.timer ~> loops.main = "exited")

\* the process has been force-exited while a unit of work, started after the
\* signal, was still in flight
C30_Witness ==
    /\ last.op = "_force_exit"
    /\ loops.main = "exited"
    /\ ~running
    /\ \E l \in Loops : loops.pc[l] = "killed" /\ loops.late[l] > 0

-----------------------------------------------------------------------------
(* Claims about the classification of the listed devices *)

\* C31: classification is total: device type sync_module gives the switch
\* archetype, owl and catalina give the camera archetype, any other type gives no
\* archetype; a listed device with no archetype is not in the shadow store and
\* nothing is published for it.
C31_ClassificationTotal ==
    \A d \in DOMAIN blink_sync_modules \cup DOMAIN blink_cameras :
        \A cfg \in {IF d \in DOMAIN blink_sync_modules THEN blink_sync_modules[d]
                    ELSE blink_cameras[d]} :
            /\ classify_device(cfg) =
                  CASE cfg.device_type = "sync_module" -> "switch"
                    [] cfg.device_type \in {"owl", "catalina"} -> "camera"
                    [] OTHER -> "None"
            /\ classify_device(cfg) = "None" =>
                  /\ d \notin DOMAIN devices
                  /\ d \notin DOMAIN states
                  /\ \A i \in DOMAIN pubs : pubs[i].d # d

-----------------------------------------------------------------------------
(* Claims about the start and the end of the service *)

\* the place of the first entry e of a log, 0 when there is none
First(log, e) ==
    IF \E i \in DOMAIN log : log[i] = e
    THEN CHOOSE i \in DOMAIN log : log[i] = e /\ \A j \in 1..(i - 1) : log[j] # e
    ELSE 0

\* C34: main_loop connects, then refreshes the device list, then refreshes the
\* snapshots, each call coming back before the next is made; no loop task is
\* created and the service is not marked ready before all three have come back.
C34_StartupOrder ==
    /\ [][/\ svc'.pc = "connected" => svc.pc \in {"entered", "connected"}
          /\ svc'.pc = "listed" => svc.pc \in {"connected", "listed"}
          /\ svc'.pc = "snapshotted" => svc.pc \in {"listed", "snapshotted"}
          /\ (svc'.tasks /\ ~svc.tasks) \/ (svc'.ready /\ ~svc.ready) =>
                svc.pc = "snapshotted"]_vars
    /\ [](svc.tasks \/ svc.ready =>
            /\ 0 < First(svc.log, "connect")
            /\ First(svc.log, "connect") < First(svc.log, "refresh_device_list")
            /\ First(svc.log, "refresh_device_list")
                  < First(svc.log, "refresh_snapshot_all_devices")
            /\ First(svc.log, "refresh_snapshot_all_devices") < First(svc.log, "mark_ready")
            /\ First(svc.log, "refresh_snapshot_all_devices") < First(svc.log, "create_task"))

\* the loops have just been started, after a device-list poll that built the
\* camera C1
C34_Witness ==
    /\ last.op = "main_loop" /\ last.handler = "create_task"
    /\ svc.pc = "looping" /\ svc.tasks /\ svc.ready /\ running
    /\ svc.log = <<"mqttc_create", "running=True", "connect", "refresh_device_list",
                   "refresh_snapshot_all_devices", "mark_ready", "create_task">>
    /\ "C1" \in DOMAIN devices

\* C35: on context exit the running flag is cleared, the service's availability
\* is published as offline, and only then is the broker client disconnected, when
\* it is connected; so it is too when there is no API session.  On context entry
\* the broker client is created before the running flag is set.
C35_ExitAndEntryOrder ==
    /\ [][(last'.op = "__aexit__" /\ svc.pc # "exited") =>
             \A new \in {SubSeq(svc'.log, Len(svc.log) + 1, Len(svc'.log))} :
                 /\ ~running'
                 /\ First(new, "running=False") = 1
                 /\ First(new, "offline") > 1
                 /\ Len(pubs') = 1 /\ pubs'[1].k = "service_availability"
                 /\ pubs'[1].v = Scal("offline")
                 /\ svc.connected => First(new, "disconnect") > First(new, "offline")
                 /\ ~svc.connected => First(new, "disconnect") = 0
                 /\ ~svc'.connected]_vars
    /\ [][(last'.op = "__aenter__" /\ svc.pc = "constructed") =>
             /\ First(svc'.log, "mqttc_create") = 1
             /\ running' <=> First(svc'.log, "running=True") = 2]_vars
    /\ [](First(svc.log, "running=True") > 0 =>
             First(svc.log, "mqttc_create") \in 1..(First(svc.log, "running=True") - 1))

\* the context has been left with the client connected and no API session
C35_Witness ==
    /\ last.op = "__aexit__" /\ svc.pc = "exited"
    /\ svc.session = "none" /\ ~running /\ ~svc.connected
    /\ svc.log = <<"mqttc_create", "running=True", "running=False", "offline", "loop_stop",
                   "disconnect">>

-----------------------------------------------------------------------------
(* Claims about the loss of the broker connection *)

\* C40 as stated: on a disconnect, when the running flag is true and more than
\* ten seconds have gone by since the last connect, a new client is created under
\* a new client id and the flag stays true; otherwise no client is created and
\* the flag becomes false.
C40_ReconnectRule ==
    [][\A late \in BOOLEAN, ok \in BOOLEAN :
          mqtt_on_disconnect(late, ok) =>
              IF running /\ late
              THEN /\ svc'.mqttc = svc.mqttc + 1
                   /\ svc'.client_id # svc.client_id
                   /\ running'
              ELSE /\ svc'.mqttc = svc.mqttc
                   /\ svc'.client_id = svc.client_id
                   /\ ~running']_vars

\* C40 as amended: in the first case the new client is created under a new
\* client id and the flag stays true exactly when the new client's connect
\* succeeds; when it fails the flag is cleared and SystemExit is raised on the
\* client's thread.  In the second case nothing is created and the flag is
\* cleared; a disconnect with the flag already false never creates a client.
C40_ReconnectUnlessConnectFails ==
    [][\A late \in BOOLEAN, ok \in BOOLEAN :
          mqtt_on_disconnect(late, ok) =>
              IF running /\ late
              THEN /\ svc'.mqttc = svc.mqttc + 1
                   /\ svc'.client_id # svc.client_id
                   /\ running' = ok /\ svc'.connected = ok
                   /\ err' = IF ok THEN "none" ELSE "SystemExit"
              ELSE /\ svc'.mqttc = svc.mqttc
                   /\ svc'.client_id = svc.client_id
                   /\ ~running' /\ ~svc'.connected /\ err' = "none"]_vars

\* the connection was lost while the loops ran and the new client could not
\* connect
C40_Witness ==
    /\ last.op = "mqtt_on_disconnect" /\ last.message = "reconnect"
    /\ svc.pc = "looping" /\ svc.mqttc = 2 /\ svc.client_id = 2
    /\ ~svc.connected /\ ~running /\ err = "SystemExit"

-----------------------------------------------------------------------------
(* Claims about the names of the commands *)

\* the component tree of device d advertises a command topic for entity h: as
\* the cmd_t of the component itself or as the cmd_t of the mode named h
AdvertisesCommand(dv, d, h) ==
    /\ Has(dv, d) /\ dv[d].t = "m"
    /\ \/ /\ "component" \in DOMAIN dv[d].m
          /\ dv[d].m["component"].t = "m"
          /\ "cmd_t" \in DOMAIN dv[d].m["component"].m
          /\ \E sec \in {"switch", "select"} :
                dv[d].m["component"].m["cmd_t"] = Scal(get_command_topic(d, sec, h))
       \/ /\ "modes" \in DOMAIN dv[d].m
          /\ dv[d].m["modes"].t = "m"
          /\ h \in DOMAIN dv[d].m["modes"].m
          /\ "cmd_t" \in DOMAIN dv[d].m["modes"].m[h].m

\* C38: a command for an entity whose descriptor advertises a command topic is
\* accepted by the command handler: it is never answered as unknown.
C38_AdvertisedCommandKnown ==
    last.op = "command_unknown" => ~AdvertisesCommand(devices, last.dev, last.handler)

-----------------------------------------------------------------------------
(* Claims about the broker client's callback thread *)

\* the message just handled is a service command that passed the handler's
\* filters: <slug>/service/<name>/set with a payload that is not empty
ServiceCommandAccepted(m) ==
    /\ m.raised = "none" /\ Truthy(m.payload)
    /\ \E c \in {Split(m.topic, "/")} :
          /\ Len(c) = 4 /\ c[1] = service_slug /\ c[2] = "service" /\ c[4] = "set"
          /\ c[3] \in {"refresh_interval", "rescan_interval", "snapshot_interval"}

\* C39: a callback of the broker client never changes the shadow store, the
\* discovery flag or the interval settings itself, and every service or device
\* command it accepts is handed to the event loop.
C39_CallbackHandsOver ==
    [][last'.op \in {"mqtt_on_connect", "mqtt_on_message"}
          => /\ devices' = devices /\ states' = states
             /\ discovery_complete' = discovery_complete
             /\ intervals' = intervals
             /\ ServiceCommandAccepted(mq') => Len(mq'.scheduled) > Len(mq.scheduled)]_vars

====
